---- MODULE Spec2Model ----
(***************************************************************************)
(* Model of llm-key-ring (crates/lkr-core): the key store (keymanager.rs), *)
(* the template engine (template.rs) and the usage aggregator (usage.rs).  *)
(*                                                                         *)
(* Strings are sequences of one-character strings, so that splitting,      *)
(* trimming, searching, masking and ordering are computed character by     *)
(* character as the Rust code computes them.                               *)
(***************************************************************************)
EXTENDS Integers, Sequences, FiniteSets, TLC

VARIABLES
    keys,    \* MockStore.keys: HashMap<String, StoredEntry>, a function name -> [value, kind]
    prev,    \* history: the value of keys before the most recent call
    call,    \* history: the most recent KeyStore call, its arguments and its result
    gen,     \* the generate call in progress: position, locals and result
    vname,   \* input of the validate_name run (pure-function specification)
    vres,    \* result of the validate_name run
    cache,   \* UsageCache.entries: a function provider -> [report, fetched_at]
    now,     \* the monotonic clock read by Instant::now and Instant::elapsed
    fc,      \* per caller, the fetch_cost call in progress: position, locals, result
    ap,      \* history: the most recent available_providers call and its result
    fs,      \* the output directory: a function path -> [content, mode]
    ws,      \* the write_secure call in progress: position, arguments and result
    sc,      \* per caller, the store call in progress, with the store at the start of the round
    kl,      \* history: the most recent KeychainStore::list call and its result
    cu,      \* the cmd_usage call in progress: position, locals, output and result
    wc,      \* per writer, the write_secure call in progress on the shared directory
    cfs      \* the shared directory: names -> files, and the files with content and mode

vars == <<keys, prev, call, gen, vname, vres, cache, now, fc, ap, fs, ws,
          sc, kl, cu, wc, cfs>>

-----------------------------------------------------------------------------
(* Bounds *)

\* longest name given to validate_name in SpecValidate
MaxNameLen == 4

\* the last instant of the clock
MaxTime == 3

\* UsageCache.ttl, in ticks of the clock
Ttl == 2

-----------------------------------------------------------------------------
(* Characters *)

\* the printable ASCII characters, in code order starting at code 32
\* (code 96, the grave accent, has no TLA+ string literal: "grave" holds its place)
Printable ==
    <<" ","!","\"","#","$","%","&","'","(",")","*","+",",","-",".","/",
      "0","1","2","3","4","5","6","7","8","9",":",";","<","=",">","?","@",
      "A","B","C","D","E","F","G","H","I","J","K","L","M","N","O","P","Q",
      "R","S","T","U","V","W","X","Y","Z","[","\\","]","^","_","grave",
      "a","b","c","d","e","f","g","h","i","j","k","l","m","n","o","p","q",
      "r","s","t","u","v","w","x","y","z","{","|","}","~">>

CodeOf == [c \in {Printable[i] : i \in 1..Len(Printable)} |->
              31 + (CHOOSE i \in 1..Len(Printable) : Printable[i] = c)]

\* the code point of a character
Code(c) ==
    IF c \in DOMAIN CodeOf THEN CodeOf[c]
    ELSE IF c = "\t" THEN 9
    ELSE IF c = "\n" THEN 10
    ELSE IF c = "\r" THEN 13
    ELSE 0

is_ascii_lowercase(c) == Code(c) >= 97 /\ Code(c) <= 122
is_ascii_uppercase(c) == Code(c) >= 65 /\ Code(c) <= 90
is_ascii_digit(c) == Code(c) >= 48 /\ Code(c) <= 57
is_ascii_alphanumeric(c) ==
    is_ascii_lowercase(c) \/ is_ascii_uppercase(c) \/ is_ascii_digit(c)
is_whitespace(c) == c \in {" ", "\t", "\n", "\r"}

\* char::to_uppercase on the ASCII range
to_upper_char(c) == IF is_ascii_lowercase(c) THEN Printable[Code(c) - 32 - 31] ELSE c

\* str::to_uppercase
to_uppercase(s) == [i \in 1..Len(s) |-> to_upper_char(s[i])]

\* str::cmp, the byte-wise lexicographic order: a < b
StrLess(a, b) ==
    \E i \in 1..(Len(b)) :
        /\ \A j \in 1..(i - 1) : j <= Len(a) /\ a[j] = b[j]
        /\ \/ i = Len(a) + 1
           \/ i <= Len(a) /\ Code(a[i]) < Code(b[i])

\* str::find(char): the first index of c in s, 0 when there is none
FindChar(s, c) ==
    IF \E i \in 1..Len(s) : s[i] = c
    THEN CHOOSE i \in 1..Len(s) : s[i] = c /\ \A j \in 1..(i - 1) : s[j] # c
    ELSE 0

-----------------------------------------------------------------------------
(* Results *)

Ok(v) == [ok |-> TRUE, err |-> "", val |-> v]
Err(e) == [ok |-> FALSE, err |-> e, val |-> <<>>]

-----------------------------------------------------------------------------
(* keymanager.rs: validation and masking *)

\* mutant: the parts are checked with is_ascii_alphanumeric throughout
re_part_alnum(s) ==
    /\ s # <<>>
    /\ \A i \in 1..Len(s) : is_ascii_alphanumeric(s[i]) \/ s[i] = "-"
    /\ is_ascii_alphanumeric(s[1])

\* the closure re_part of validate_name
re_part(s) ==
    /\ s # <<>>
    /\ \A i \in 1..Len(s) :
          is_ascii_lowercase(s[i]) \/ is_ascii_digit(s[i]) \/ s[i] = "-"
    /\ is_ascii_alphanumeric(s[1])

validate_name(name) ==
    LET p == FindChar(name, ":")
        provider == SubSeq(name, 1, p - 1)
        label == SubSeq(name, p + 1, Len(name))
    IN  IF p = 0 THEN Err("InvalidKeyName")
        ELSE IF ~re_part(provider) THEN Err("InvalidKeyName")
        ELSE IF ~re_part(label) THEN Err("InvalidKeyName")
        ELSE Ok([provider |-> provider, label |-> label])

mask_value(value) ==
    LET len == Len(value)
    IN  IF len <= 8 THEN [i \in 1..len |-> "*"]
        ELSE SubSeq(value, 1, 4) \o <<".", ".", ".">> \o SubSeq(value, len - 3, len)

-----------------------------------------------------------------------------
(* keymanager.rs: MockStore *)

\* mutant: an existing entry is kept (entry().or_insert instead of insert)
Insert_keep_existing(ks, name, entry) ==
    [n \in (DOMAIN ks) \cup {name} |-> IF n \in DOMAIN ks THEN ks[n] ELSE entry]

\* HashMap::insert
Insert(ks, name, entry) ==
    [n \in (DOMAIN ks) \cup {name} |-> IF n = name THEN entry ELSE ks[n]]

\* mutant: the whole map is cleared
Remove_clear(ks, name) == [n \in {} |-> ks[n]]

\* HashMap::remove
Remove(ks, name) == [n \in (DOMAIN ks) \ {name} |-> ks[n]]

\* mutant: the value is checked before the name
MockSet_value_first(ks, name, value, kind, force) ==
    IF value = <<>> THEN [res |-> Err("EmptyValue"), keys |-> ks]
    ELSE IF ~validate_name(name).ok THEN [res |-> Err("InvalidKeyName"), keys |-> ks]
    ELSE IF ~force /\ name \in DOMAIN ks
         THEN [res |-> Err("KeyAlreadyExists"), keys |-> ks]
    ELSE [res |-> Ok(<<>>),
          keys |-> [n \in (DOMAIN ks) \cup {name} |->
                      IF n = name THEN [value |-> value, kind |-> kind] ELSE ks[n]]]

\* MockStore::set: the result and the map afterwards
MockSet(ks, name, value, kind, force) ==
    IF ~validate_name(name).ok THEN [res |-> Err("InvalidKeyName"), keys |-> ks]
    ELSE IF value = <<>> THEN [res |-> Err("EmptyValue"), keys |-> ks]
    ELSE IF ~force /\ name \in DOMAIN ks
         THEN [res |-> Err("KeyAlreadyExists"), keys |-> ks]
    ELSE [res |-> Ok(<<>>),
          keys |-> Insert(ks, name, [value |-> value, kind |-> kind])]

\* MockStore::get
MockGet(ks, name) ==
    IF ~validate_name(name).ok THEN Err("InvalidKeyName")
    ELSE IF name \in DOMAIN ks THEN Ok(ks[name])
    ELSE Err("KeyNotFound")

\* MockStore::delete: the result and the map afterwards
MockDelete(ks, name) ==
    IF ~validate_name(name).ok THEN [res |-> Err("InvalidKeyName"), keys |-> ks]
    ELSE IF name \notin DOMAIN ks THEN [res |-> Err("KeyNotFound"), keys |-> ks]
    ELSE [res |-> Ok(<<>>), keys |-> Remove(ks, name)]

\* MockStore::exists
MockExists(ks, name) ==
    IF ~validate_name(name).ok THEN Err("InvalidKeyName")
    ELSE Ok(name \in DOMAIN ks)

\* the orders in which HashMap::iter may visit the entries
IterOrders(ks) ==
    LET S == DOMAIN ks
    IN  {o \in [1..Cardinality(S) -> S] :
            \A i, j \in 1..Cardinality(S) : i # j => o[i] # o[j]}

\* mutant: the entries are left in iteration order
SortByName_unsorted(entries) == entries

\* entries.sort_by(|a, b| a.name.cmp(&b.name))
SortByName(entries) == SortSeq(entries, LAMBDA a, b : StrLess(a.name, b.name))

\* MockStore::list, for one iteration order of the map
MockList(ks, order, include_admin) ==
    LET kept == SelectSeq(order, LAMBDA n : include_admin \/ ks[n].kind = "Runtime")
        entries == [i \in 1..Len(kept) |->
                      [name |-> kept[i],
                       provider |-> validate_name(kept[i]).val.provider,
                       label |-> validate_name(kept[i]).val.label,
                       kind |-> ks[kept[i]].kind,
                       masked_value |-> mask_value(ks[kept[i]].value)]]
    IN  Ok(SortByName(entries))

-----------------------------------------------------------------------------
(* template.rs: strings *)

\* str::lines: split at "\n", a "\r" before the "\n" removed, no final empty line
RECURSIVE Lines(_)
Lines(s) ==
    IF s = <<>> THEN <<>>
    ELSE LET p == FindChar(s, "\n")
             l == SubSeq(s, 1, p - 1)
         IN  IF p = 0 THEN <<s>>
             ELSE <<IF l # <<>> /\ l[Len(l)] = "\r" THEN SubSeq(l, 1, Len(l) - 1) ELSE l>>
                  \o Lines(SubSeq(s, p + 1, Len(s)))

\* str::trim
Trim(s) ==
    LET keep == {i \in 1..Len(s) : ~is_whitespace(s[i])}
    IN  IF keep = {} THEN <<>>
        ELSE SubSeq(s, CHOOSE i \in keep : \A j \in keep : i <= j,
                       CHOOSE i \in keep : \A j \in keep : i >= j)

\* str::find(&str) on s[from..]: the offset (from 0) in s of the first
\* occurrence of pat at or after offset from, -1 when there is none
FindStr(s, pat, from) ==
    LET hits == {p \in from..(Len(s) - Len(pat)) : SubSeq(s, p + 1, p + Len(pat)) = pat}
    IN  IF hits = {} THEN -1 ELSE CHOOSE p \in hits : \A q \in hits : p <= q

\* the escape of one character in escape_json_value (the control characters
\* other than \n, \r, \t do not occur in the values of the model)
escape_char(c) ==
    IF c = "\\" THEN <<"\\", "\\">>
    ELSE IF c = "\"" THEN <<"\\", "\"">>
    ELSE IF c = "\n" THEN <<"\\", "n">>
    ELSE IF c = "\r" THEN <<"\\", "r">>
    ELSE IF c = "\t" THEN <<"\\", "t">>
    ELSE <<c>>

RECURSIVE escape_json_value(_)
escape_json_value(s) ==
    IF s = <<>> THEN <<>> ELSE escape_char(Head(s)) \o escape_json_value(Tail(s))

-----------------------------------------------------------------------------
(* template.rs: the .env.example format *)

ENV_VAR_MAP ==
    <<<<<<"O","P","E","N","A","I","_","A","P","I","_","K","E","Y">>,
        <<"o","p","e","n","a","i">>>>,
      <<<<"A","N","T","H","R","O","P","I","C","_","A","P","I","_","K","E","Y">>,
        <<"a","n","t","h","r","o","p","i","c">>>>,
      <<<<"G","O","O","G","L","E","_","A","P","I","_","K","E","Y">>,
        <<"g","o","o","g","l","e">>>>,
      <<<<"M","I","S","T","R","A","L","_","A","P","I","_","K","E","Y">>,
        <<"m","i","s","t","r","a","l">>>>,
      <<<<"C","O","H","E","R","E","_","A","P","I","_","K","E","Y">>,
        <<"c","o","h","e","r","e">>>>,
      <<<<"G","R","O","Q","_","A","P","I","_","K","E","Y">>,
        <<"g","r","o","q">>>>,
      <<<<"P","E","R","P","L","E","X","I","T","Y","_","A","P","I","_","K","E","Y">>,
        <<"p","e","r","p","l","e","x","i","t","y">>>>,
      <<<<"F","I","R","E","W","O","R","K","S","_","A","P","I","_","K","E","Y">>,
        <<"f","i","r","e","w","o","r","k","s">>>>,
      <<<<"T","O","G","E","T","H","E","R","_","A","P","I","_","K","E","Y">>,
        <<"t","o","g","e","t","h","e","r">>>>,
      <<<<"R","E","P","L","I","C","A","T","E","_","A","P","I","_","K","E","Y">>,
        <<"r","e","p","l","i","c","a","t","e">>>>,
      <<<<"H","U","G","G","I","N","G","F","A","C","E","_","A","P","I","_","K","E","Y">>,
        <<"h","u","g","g","i","n","g","f","a","c","e">>>>,
      <<<<"D","E","E","P","S","E","E","K","_","A","P","I","_","K","E","Y">>,
        <<"d","e","e","p","s","e","e","k">>>>,
      <<<<"X","A","I","_","A","P","I","_","K","E","Y">>,
        <<"x","a","i">>>>,
      <<<<"A","Z","U","R","E","_","O","P","E","N","A","I","_","A","P","I","_","K","E","Y">>,
        <<"a","z","u","r","e","-","o","p","e","n","a","i">>>>,
      <<<<"A","W","S","_","A","P","I","_","K","E","Y">>,
        <<"a","w","s">>>>,
      <<<<"V","O","Y","A","G","E","_","A","P","I","_","K","E","Y">>,
        <<"v","o","y","a","g","e">>>>,
      <<<<"A","N","Y","S","C","A","L","E","_","A","P","I","_","K","E","Y">>,
        <<"a","n","y","s","c","a","l","e">>>>>>

\* mutant: the newest entry of a provider replaces the first as key_name
build_provider_map_last(entries) ==
    [p \in {entries[i].provider : i \in 1..Len(entries)} |->
        LET es == SelectSeq(entries, LAMBDA e : e.provider = p)
        IN  [key_name |-> es[Len(es)].name,
             alternatives |-> [i \in 1..Len(es) |-> es[i].name]]]

\* provider -> (name of the first entry of the provider, names of all its entries)
build_provider_map(entries) ==
    [p \in {entries[i].provider : i \in 1..Len(entries)} |->
        LET es == SelectSeq(entries, LAMBDA e : e.provider = p)
        IN  [key_name |-> es[1].name,
             alternatives |-> [i \in 1..Len(es) |-> es[i].name]]]

None == [some |-> FALSE]

\* str::starts_with
StartsWith(s, pre) == Len(s) >= Len(pre) /\ SubSeq(s, 1, Len(pre)) = pre

\* mutant: the variable is matched by its provider prefix (AWS_ for aws)
resolve_env_var_prefix(ks, var_name, provider_map) ==
    LET var_upper == to_uppercase(var_name)
        hits == {i \in 1..Len(ENV_VAR_MAP) :
                    /\ StartsWith(var_upper, to_uppercase(ENV_VAR_MAP[i][2]) \o <<"_">>)
                    /\ ENV_VAR_MAP[i][2] \in DOMAIN provider_map
                    /\ MockGet(ks, provider_map[ENV_VAR_MAP[i][2]].key_name).ok}
        first == CHOOSE i \in hits : \A j \in hits : i <= j
        found == provider_map[ENV_VAR_MAP[first][2]]
    IN  IF hits = {} THEN None
        ELSE [some |-> TRUE,
              key_name |-> found.key_name,
              value |-> MockGet(ks, found.key_name).val.value,
              kind |-> MockGet(ks, found.key_name).val.kind,
              alternatives |-> found.alternatives]

\* resolve_env_var: the first row of ENV_VAR_MAP whose name equals the
\* upper-cased variable, whose provider is in the map and whose key can be
\* read. kind is the kind that store.get returned and the code discards.
resolve_env_var(ks, var_name, provider_map) ==
    LET var_upper == to_uppercase(var_name)
        hits == {i \in 1..Len(ENV_VAR_MAP) :
                    /\ var_upper = ENV_VAR_MAP[i][1]
                    /\ ENV_VAR_MAP[i][2] \in DOMAIN provider_map
                    /\ MockGet(ks, provider_map[ENV_VAR_MAP[i][2]].key_name).ok}
        first == CHOOSE i \in hits : \A j \in hits : i <= j
        found == provider_map[ENV_VAR_MAP[first][2]]
    IN  IF hits = {} THEN None
        ELSE [some |-> TRUE,
              key_name |-> found.key_name,
              value |-> MockGet(ks, found.key_name).val.value,
              kind |-> MockGet(ks, found.key_name).val.kind,
              alternatives |-> found.alternatives]

Unresolved(placeholder) ==
    [placeholder |-> placeholder, key_name |-> <<>>, alternatives |-> <<>>]

\* Resolution with key_name: Some(key_name)
Resolved(placeholder, key_name, alternatives) ==
    [placeholder |-> placeholder, key_name |-> <<key_name>>,
     alternatives |-> alternatives]

\* the body of the loop of generate_env for one line: the text pushed to
\* output, the Resolution pushed (if any) and the entry read (if any)
generate_env_line(ks, line, provider_map) ==
    LET trimmed == Trim(line)
        eq_pos == FindChar(trimmed, "=")
        var_name == Trim(SubSeq(trimmed, 1, eq_pos - 1))
        r == resolve_env_var(ks, var_name, provider_map)
        kept == line \o <<"\n">>
    IN  IF trimmed = <<>> \/ trimmed[1] = "#"
        THEN [line |-> line, out |-> kept, res |-> <<>>, reads |-> <<>>]
        ELSE IF eq_pos # 0
        THEN IF r.some
             THEN [line |-> line,
                   out |-> var_name \o <<"=">> \o r.value \o <<"\n">>,
                   res |-> <<Resolved(var_name, r.key_name, r.alternatives)>>,
                   reads |-> <<[name |-> r.key_name, kind |-> r.kind]>>]
             ELSE [line |-> line, out |-> kept, res |-> <<Unresolved(var_name)>>,
                   reads |-> <<>>]
        ELSE [line |-> line, out |-> kept, res |-> <<>>, reads |-> <<>>]

-----------------------------------------------------------------------------
(* template.rs: the {{lkr:...}} format *)

OPEN == <<"{", "{", "l", "k", "r", ":">>
CLOSE == <<"}", "}">>

\* mutant: the format is decided by the start of the text
is_json_template_prefix(content) == StartsWith(content, OPEN)

is_json_template(content) == FindStr(content, OPEN, 0) # -1

\* mutant: a name that is not stored is an error, as every other get error
generate_json_step_notfound_err(ks, output, search_from) ==
    LET start == FindStr(output, OPEN, search_from)
        close == FindStr(output, CLOSE, start)
        end == close + 2
        placeholder == SubSeq(output, start + 1, end)
        key_name == SubSeq(placeholder, 7, Len(placeholder) - 2)
        g == MockGet(ks, key_name)
        escaped == escape_json_value(g.val.value)
        stay == [status |-> "finished", err |-> "", output |-> output,
                 search_from |-> search_from, res |-> <<>>, reads |-> <<>>]
    IN  IF start = -1 THEN stay
        ELSE IF close = -1 THEN [stay EXCEPT !.status = "error", !.err = "Template"]
        ELSE IF g.ok
        THEN IF g.val.kind = "Admin"
             THEN [stay EXCEPT !.status = "error", !.err = "Template"]
             ELSE [status |-> "continue", err |-> "",
                   output |-> SubSeq(output, 1, start) \o escaped
                              \o SubSeq(output, end + 1, Len(output)),
                   search_from |-> start + Len(escaped),
                   res |-> <<Resolved(placeholder, key_name, <<>>)>>,
                   reads |-> <<[name |-> key_name, kind |-> g.val.kind]>>]
        ELSE [stay EXCEPT !.status = "error", !.err = g.err]

\* mutant: an opening without a closing ends the scan without an error
generate_json_step_unclosed_ok(ks, output, search_from) ==
    LET start == FindStr(output, OPEN, search_from)
        close == FindStr(output, CLOSE, start)
        end == close + 2
        placeholder == SubSeq(output, start + 1, end)
        key_name == SubSeq(placeholder, 7, Len(placeholder) - 2)
        g == MockGet(ks, key_name)
        escaped == escape_json_value(g.val.value)
        stay == [status |-> "finished", err |-> "", output |-> output,
                 search_from |-> search_from, res |-> <<>>, reads |-> <<>>]
    IN  IF start = -1 THEN stay
        ELSE IF close = -1 THEN stay
        ELSE IF g.ok
        THEN IF g.val.kind = "Admin"
             THEN [stay EXCEPT !.status = "error", !.err = "Template"]
             ELSE [status |-> "continue", err |-> "",
                   output |-> SubSeq(output, 1, start) \o escaped
                              \o SubSeq(output, end + 1, Len(output)),
                   search_from |-> start + Len(escaped),
                   res |-> <<Resolved(placeholder, key_name, <<>>)>>,
                   reads |-> <<[name |-> key_name, kind |-> g.val.kind]>>]
        ELSE IF g.err = "KeyNotFound"
        THEN [stay EXCEPT !.status = "continue", !.search_from = end,
                          !.res = <<Unresolved(placeholder)>>]
        ELSE [stay EXCEPT !.status = "error", !.err = g.err]

\* mutant: after a replacement the scan resumes at the end offset of the
\* placeholder, which is an offset of the text before the replacement
generate_json_step_resume_end(ks, output, search_from) ==
    LET start == FindStr(output, OPEN, search_from)
        close == FindStr(output, CLOSE, start)
        end == close + 2
        placeholder == SubSeq(output, start + 1, end)
        key_name == SubSeq(placeholder, 7, Len(placeholder) - 2)
        g == MockGet(ks, key_name)
        escaped == escape_json_value(g.val.value)
        stay == [status |-> "finished", err |-> "", output |-> output,
                 search_from |-> search_from, res |-> <<>>, reads |-> <<>>]
    IN  IF start = -1 THEN stay
        ELSE IF close = -1 THEN [stay EXCEPT !.status = "error", !.err = "Template"]
        ELSE IF g.ok
        THEN IF g.val.kind = "Admin"
             THEN [stay EXCEPT !.status = "error", !.err = "Template"]
             ELSE [status |-> "continue", err |-> "",
                   output |-> SubSeq(output, 1, start) \o escaped
                              \o SubSeq(output, end + 1, Len(output)),
                   search_from |-> end,
                   res |-> <<Resolved(placeholder, key_name, <<>>)>>,
                   reads |-> <<[name |-> key_name, kind |-> g.val.kind]>>]
        ELSE IF g.err = "KeyNotFound"
        THEN [stay EXCEPT !.status = "continue", !.search_from = end,
                          !.res = <<Unresolved(placeholder)>>]
        ELSE [stay EXCEPT !.status = "error", !.err = g.err]

\* mutant: the kind returned by store.get is not looked at
generate_json_step_no_kind(ks, output, search_from) ==
    LET start == FindStr(output, OPEN, search_from)
        close == FindStr(output, CLOSE, start)
        end == close + 2
        placeholder == SubSeq(output, start + 1, end)
        key_name == SubSeq(placeholder, 7, Len(placeholder) - 2)
        g == MockGet(ks, key_name)
        escaped == escape_json_value(g.val.value)
        stay == [status |-> "finished", err |-> "", output |-> output,
                 search_from |-> search_from, res |-> <<>>, reads |-> <<>>]
    IN  IF start = -1 THEN stay
        ELSE IF close = -1 THEN [stay EXCEPT !.status = "error", !.err = "Template"]
        ELSE IF g.ok
        THEN [status |-> "continue", err |-> "",
              output |-> SubSeq(output, 1, start) \o escaped
                         \o SubSeq(output, end + 1, Len(output)),
              search_from |-> start + Len(escaped),
              res |-> <<Resolved(placeholder, key_name, <<>>)>>,
              reads |-> <<[name |-> key_name, kind |-> g.val.kind]>>]
        ELSE IF g.err = "KeyNotFound"
        THEN [stay EXCEPT !.status = "continue", !.search_from = end,
                          !.res = <<Unresolved(placeholder)>>]
        ELSE [stay EXCEPT !.status = "error", !.err = g.err]

\* one iteration of the while loop of generate_json, offsets counted from 0
generate_json_step(ks, output, search_from) ==
    LET start == FindStr(output, OPEN, search_from)
        close == FindStr(output, CLOSE, start)
        end == close + 2
        placeholder == SubSeq(output, start + 1, end)
        key_name == SubSeq(placeholder, 7, Len(placeholder) - 2)
        g == MockGet(ks, key_name)
        escaped == escape_json_value(g.val.value)
        stay == [status |-> "finished", err |-> "", output |-> output,
                 search_from |-> search_from, res |-> <<>>, reads |-> <<>>]
    IN  IF start = -1 THEN stay
        ELSE IF close = -1 THEN [stay EXCEPT !.status = "error", !.err = "Template"]
        ELSE IF g.ok
        THEN IF g.val.kind = "Admin"
             THEN [stay EXCEPT !.status = "error", !.err = "Template"]
             ELSE [status |-> "continue", err |-> "",
                   output |-> SubSeq(output, 1, start) \o escaped
                              \o SubSeq(output, end + 1, Len(output)),
                   search_from |-> start + Len(escaped),
                   res |-> <<Resolved(placeholder, key_name, <<>>)>>,
                   reads |-> <<[name |-> key_name, kind |-> g.val.kind]>>]
        ELSE IF g.err = "KeyNotFound"
        THEN [stay EXCEPT !.status = "continue", !.search_from = end,
                          !.res = <<Unresolved(placeholder)>>]
        ELSE [stay EXCEPT !.status = "error", !.err = g.err]

-----------------------------------------------------------------------------
(* usage.rs: the cost cache, the admin-key gate and the HTTP status mapping *)

\* an error that carries a message or fields
ErrWith(e, detail) == [ok |-> FALSE, err |-> e, val |-> detail]

openai == <<"o","p","e","n","a","i">>
anthropic == <<"a","n","t","h","r","o","p","i","c">>

\* the providers fetch_cost dispatches on and available_providers probes
SupportedProviders == <<openai, anthropic>>

\* format!("{}:admin", provider)
admin_key_name(provider) == provider \o <<":","a","d","m","i","n">>

\* KeychainStore::get: fault is what the platform keychain answers, "none"
\* when it answers with the stored item or with NoEntry; "NoEntry" when the
\* item has gone by the time of the read, "BadPayload" when the item read is
\* not the JSON of a StoredEntry
KeychainGet(ks, name, fault) ==
    IF ~validate_name(name).ok THEN Err("InvalidKeyName")
    ELSE IF fault = "PlatformFailure" THEN Err("KeychainLocked")
    ELSE IF fault = "Other" THEN Err("Keychain")
    ELSE IF fault = "NoEntry" THEN Err("KeyNotFound")
    ELSE IF name \in DOMAIN ks
         THEN IF fault = "BadPayload" THEN Err("Keychain") ELSE Ok(ks[name])
    ELSE Err("KeyNotFound")

\* mutant: the first enumerated account that cannot be read ends the call
KeychainList_strict(ks, include_admin, search, order, faults) ==
    IF search = "NotFound" THEN Ok(<<>>)
    ELSE IF search = "Error" THEN Err("Keychain")
    ELSE LET bad == SelectSeq(order, LAMBDA n :
                        faults[n] # "NoAccount" /\ ~KeychainGet(ks, n, faults[n]).ok)
             kept == SelectSeq(order, LAMBDA n :
                        /\ faults[n] # "NoAccount"
                        /\ KeychainGet(ks, n, faults[n]).ok
                        /\ (include_admin \/ ks[n].kind = "Runtime"))
         IN  IF bad # <<>> THEN KeychainGet(ks, bad[1], faults[bad[1]])
             ELSE Ok(SortByName([i \in 1..Len(kept) |->
                        [name |-> kept[i],
                         provider |-> validate_name(kept[i]).val.provider,
                         label |-> validate_name(kept[i]).val.label,
                         kind |-> ks[kept[i]].kind,
                         masked_value |-> mask_value(ks[kept[i]].value)]]))

\* KeychainStore::list: search is the answer of the keychain to the
\* enumeration, order the accounts in the order enumerated, faults what
\* happens to each one: "NoAccount" when extract_account gives None,
\* otherwise the answer to the read of get
KeychainList(ks, include_admin, search, order, faults) ==
    IF search = "NotFound" THEN Ok(<<>>)
    ELSE IF search = "Error" THEN Err("Keychain")
    ELSE LET kept == SelectSeq(order, LAMBDA n :
                        /\ faults[n] # "NoAccount"
                        /\ KeychainGet(ks, n, faults[n]).ok
                        /\ (include_admin \/ ks[n].kind = "Runtime")
                        /\ validate_name(n).ok)
         IN  Ok(SortByName([i \in 1..Len(kept) |->
                   [name |-> kept[i],
                    provider |-> validate_name(kept[i]).val.provider,
                    label |-> validate_name(kept[i]).val.label,
                    kind |-> ks[kept[i]].kind,
                    masked_value |-> mask_value(ks[kept[i]].value)]]))

\* mutant: an entry whose age equals the TTL is still served
UsageCacheGet_le(entries, provider, t, ttl) ==
    IF provider \notin DOMAIN entries THEN <<>>
    ELSE IF t - entries[provider].fetched_at <= ttl
         THEN <<entries[provider].report>>
         ELSE <<>>

\* UsageCache::get at time t: Some(report) as <<report>>, None as <<>>
UsageCacheGet(entries, provider, t, ttl) ==
    IF provider \notin DOMAIN entries THEN <<>>
    ELSE IF t - entries[provider].fetched_at < ttl
         THEN <<entries[provider].report>>
         ELSE <<>>

\* mutant: the insert drops the entries of the other providers
UsageCacheSet_only(entries, provider, report, t) ==
    [p \in {provider} |-> [report |-> report, fetched_at |-> t]]

\* UsageCache::set at time t: the map afterwards
UsageCacheSet(entries, provider, report, t) ==
    [p \in DOMAIN entries \cup {provider} |->
        IF p = provider THEN [report |-> report, fetched_at |-> t]
        ELSE entries[p]]

\* mutant: the kind of the entry is not looked at
get_admin_key_any_kind(ks, provider, fault) ==
    LET g == KeychainGet(ks, admin_key_name(provider), fault)
    IN  IF g.ok THEN Ok(g.val.value)
        ELSE IF g.err = "KeyNotFound" THEN ErrWith("AdminKeyRequired", provider)
        ELSE Err(g.err)

\* get_admin_key
get_admin_key(ks, provider, fault) ==
    LET g == KeychainGet(ks, admin_key_name(provider), fault)
    IN  IF g.ok
        THEN IF g.val.kind # "Admin" THEN ErrWith("Usage", "not an admin key")
             ELSE Ok(g.val.value)
        ELSE IF g.err = "KeyNotFound" THEN ErrWith("AdminKeyRequired", provider)
        ELSE Err(g.err)

\* the message handed to check_response by the fetch function of a provider
auth_error_msg(provider) ==
    IF provider = openai THEN "OpenAI admin key is invalid or expired"
    ELSE "Anthropic admin key is invalid or requires an Organization account"

\* StatusCode::is_success
is_success(status) == status >= 200 /\ status <= 299

\* check_response
check_response(resp, msg) ==
    IF resp.status = 401 \/ resp.status = 403 THEN ErrWith("Usage", msg)
    ELSE IF ~is_success(resp.status)
    THEN ErrWith("HttpError", [status |-> resp.status, body |-> resp.body])
    ELSE Ok(resp)

\* resp.json() and the aggregation that follows it: a body that is not the
\* JSON of a cost response is an error, any other body gives the report of
\* its line items, which stands here as the body itself
parse_report(provider, body) ==
    IF body = "garbage" THEN ErrWith("Usage", "Failed to parse response")
    ELSE Ok([provider |-> provider, body |-> body])

\* the error of fetch_cost for a provider outside SupportedProviders
unknown_provider_error == ErrWith("Usage", "Unknown provider")

\* the error of a request that got no response
request_failed_error == ErrWith("Usage", "API request failed")

\* mutant: a probe that fails is taken as an absent key
available_providers_skip_errors(ks, faults) ==
    LET RECURSIVE probe(_, _)
        probe(i, acc) ==
            IF i > Len(SupportedProviders) THEN Ok(acc)
            ELSE LET g == KeychainGet(ks, admin_key_name(SupportedProviders[i]), faults[i])
                 IN  IF g.ok THEN probe(i + 1, Append(acc, SupportedProviders[i]))
                     ELSE probe(i + 1, acc)
    IN  probe(1, <<>>)

\* available_providers: faults[i] is what the keychain answers to probe i
available_providers(ks, faults) ==
    LET RECURSIVE probe(_, _)
        probe(i, acc) ==
            IF i > Len(SupportedProviders) THEN Ok(acc)
            ELSE LET g == KeychainGet(ks, admin_key_name(SupportedProviders[i]), faults[i])
                 IN  IF g.ok THEN probe(i + 1, Append(acc, SupportedProviders[i]))
                     ELSE IF g.err = "KeyNotFound" THEN probe(i + 1, acc)
                     ELSE Err(g.err)
    IN  probe(1, <<>>)

-----------------------------------------------------------------------------
(* template.rs: write_secure over a directory *)

\* mutant: the text is written to the destination itself
tmp_path_same(path) == path

\* parent.join(format!(".lkr-gen-{}.tmp", std::process::id())): the same
\* path for every destination of the directory
tmp_path(path) == "tmp"

\* OpenOptions write, create, truncate, mode(0o600): the directory afterwards;
\* the mode is given to a file that open creates, a file that exists is
\* emptied and keeps its mode
open_truncate(dir, path) ==
    [p \in DOMAIN dir \cup {path} |->
        IF p = path
        THEN [content |-> <<>>,
              mode |-> IF path \in DOMAIN dir THEN dir[path].mode ELSE "0600"]
        ELSE dir[p]]

\* fs::rename: the file at from replaces whatever is at to, in one step
rename(dir, from, to) ==
    IF from = to THEN dir
    ELSE [p \in (DOMAIN dir \cup {to}) \ {from} |->
             IF p = to THEN dir[from] ELSE dir[p]]

\* fs::remove_file, errors ignored
remove_file(dir, path) == [p \in DOMAIN dir \ {path} |-> dir[p]]

-----------------------------------------------------------------------------
(* Inputs *)

aws_dev == <<"a","w","s",":","d","e","v">>
aws_prod == <<"a","w","s",":","p","r","o","d">>
openai_admin == <<"o","p","e","n","a","i",":","a","d","m","i","n">>
no_colon == <<"a","w","s">>
upper_name == <<"A","w","s",":","d","e","v">>

\* the names callers pass to the store
NameInputs == {aws_dev, aws_prod, openai_admin, no_colon, upper_name}

sk_proj_12 == <<"s","k","-","p","r","o","j","-","1","2">>
stars == <<"*","*">>

\* the values callers pass to set
ValueInputs == {<<>>, sk_proj_12, stars}

KeyKind == {"Runtime", "Admin"}

\* AWS_REGION=us\nAWS_API_KEY=x\nAWS_DEFAULT_REGION=ap\n
env_aws == <<"A","W","S","_","R","E","G","I","O","N","=","u","s","\n","A","W","S","_","A","P","I","_","K","E","Y","=","x","\n","A","W","S","_","D","E","F","A","U","L","T","_","R","E","G","I","O","N","=","a","p","\n">>

\* # c\n\n aws_api_key = x\nnote\nOPENAI_API_KEY=y
env_mixed == <<"#"," ","c","\n","\n"," ","a","w","s","_","a","p","i","_","k","e","y"," ","="," ","x","\n","n","o","t","e","\n","O","P","E","N","A","I","_","A","P","I","_","K","E","Y","=","y">>

\* a{{lkr:aws:prod}}b
json_one == <<"a","{","{","l","k","r",":","a","w","s",":","p","r","o","d","}","}","b">>

\* {{lkr:aws:dev}},{{lkr:openai:admin}}
json_two == <<"{","{","l","k","r",":","a","w","s",":","d","e","v","}","}",",","{","{","l","k","r",":","o","p","e","n","a","i",":","a","d","m","i","n","}","}">>

\* {{lkr:Aws}}{{lkr:openai:admin}}
json_bad_name == <<"{","{","l","k","r",":","A","w","s","}","}","{","{","l","k","r",":","o","p","e","n","a","i",":","a","d","m","i","n","}","}">>

\* {{lkr:aws:dev}}{{lkr:aws
json_unclosed == <<"{","{","l","k","r",":","a","w","s",":","d","e","v","}","}","{","{","l","k","r",":","a","w","s">>

\* the template files given to generate
Templates == {env_aws, env_mixed, json_one, json_two, json_bad_name, json_unclosed}

\* {{lkr:Aws}}{{lkr:aws
json_bad_unclosed == <<"{","{","l","k","r",":","A","w","s","}","}","{","{","l","k","r",":","a","w","s">>

\* the placeholder-format templates given to generate_json
JsonTemplates == {json_one, json_two, json_bad_name, json_unclosed, json_bad_unclosed}

\* {{lkr:aws:prod}}{{lkr:
nested == <<"{","{","l","k","r",":","a","w","s",":","p","r","o","d","}","}","{","{","l","k","r",":">>

\* "\
quoted == <<"\"", "\\">>

\* the stored values of the stores generate_json runs on
JsonValues == {stars, nested, quoted}

\* the stored names of the stores generate_json runs on
JsonNames == {aws_dev, aws_prod, openai_admin}

\* the contents of the stores generate_json runs on
JsonStores ==
    UNION {[ns -> [value : JsonValues, kind : KeyKind]] : ns \in SUBSET JsonNames}

mistral == <<"m","i","s","t","r","a","l">>

\* the provider arguments given to fetch_cost
ProviderInputs == {openai, anthropic, mistral}

anthropic_admin == admin_key_name(anthropic)

\* the names of the admin keys of the supported providers
AdminNames == {openai_admin, anthropic_admin}

\* the contents of the stores the usage functions run on
UsageStores ==
    UNION {[ns -> [value : {sk_proj_12}, kind : KeyKind]] : ns \in SUBSET AdminNames}

\* what the platform keychain answers to a read
BackendFaults == {"none", "PlatformFailure", "Other"}

StatusCodes == {200, 401, 403, 500}

\* response bodies: two cost responses and one that is not a cost response
Bodies == {"cost-a", "cost-b", "garbage"}

\* the responses of the provider API
Responses == [status : StatusCodes, body : Bodies]

\* the callers of the specification with one fetch_cost call at a time
SoleCaller == {"c1"}

\* the path given to write_secure and the temporary path next to it
Destinations == {"out"}
DirPaths == {"out", "tmp"}

FileModes == {"0600", "0644"}

\* k=1
rendered == <<"k","=","1">>

\* the texts given to write_secure
RenderedInputs == {rendered, <<>>}

\* the contents of the files found in the directory
FileContents == {<<"o","l","d">>}

\* the states of the directory before a write_secure call
Directories ==
    UNION {[ps -> [content : FileContents, mode : FileModes]] : ps \in SUBSET DirPaths}

\* the characters of the names given to validate_name
NameChars == {"a", "Z", "1", "-", ":", "_"}

\* all strings over NameChars of length at most MaxNameLen
BoundedNames == UNION {[1..n -> NameChars] : n \in 0..MaxNameLen}

-----------------------------------------------------------------------------
(* State *)

NoCall == [op |-> "none", name |-> <<>>, value |-> <<>>, kind |-> "Runtime",
           force |-> FALSE, include_admin |-> FALSE, res |-> Ok(<<>>)]

NoResult == [ok |-> FALSE, err |-> "none", val |-> <<>>]

\* gen: pc is the position in generate; content the template text;
\* provider_map, lines, i the locals of generate_env; output, resolutions,
\* search_from the locals of generate_env and generate_json; result the value
\* returned; emitted (per line: the line, the text pushed, the Resolution
\* pushed) and reads (per substituted value: the name read and the kind that
\* store.get returned with it) are history.
IdleGen == [pc |-> "idle", content |-> <<>>, provider_map |-> <<>>, lines |-> <<>>,
            i |-> 0, output |-> <<>>, resolutions |-> <<>>, search_from |-> 0,
            emitted |-> <<>>, reads |-> <<>>, result |-> NoResult]

\* the callers of fetch_cost that share one UsageCache and one store
Callers == {"c1", "c2"}

\* no response received
NoResp == [status |-> 0, body |-> "none"]

\* fc[c]: pc is the position in fetch_cost and the fetch function it awaits;
\* provider, refresh the arguments; admin_key the local of the fetch function
\* (<<>> once dropped); resp the response of the provider API; result the
\* value returned.  History: seen is the cache entry of the provider at the
\* time of the call with its age (<<>> if none); fault what the keychain
\* answered to the read of the admin key; entry what the store held under the
\* admin key name at that read; reads and sent count the reads of the store
\* and the requests sent; parsed tells that the response body was parsed;
\* report is the report built from the response; path tells which return
\* statement of fetch_cost ended or will end the call.
IdleFetch == [pc |-> "idle", provider |-> <<>>, refresh |-> FALSE,
              admin_key |-> <<>>, resp |-> NoResp, result |-> NoResult,
              seen |-> <<>>, fault |-> "none", entry |-> <<>>, reads |-> 0,
              sent |-> 0, parsed |-> FALSE, report |-> <<>>, path |-> "none"]

\* no available_providers call made
NoProbe == [done |-> FALSE, store |-> <<>>, faults |-> <<>>, res |-> NoResult]

\* ws: pc is the position in write_secure; path, content the arguments;
\* result the value returned.  History: before is the file at path when the
\* call was made (<<>> if none).
IdleWrite == [pc |-> "idle", path |-> "", content |-> <<>>, result |-> NoResult,
              before |-> <<>>]

\* an empty cache at time 0, no usage call made
UsageIdle ==
    /\ cache = <<>>
    /\ now = 0
    /\ fc = [c \in Callers |-> IdleFetch]
    /\ ap = NoProbe

\* an empty directory, no write_secure call made
WriteIdle ==
    /\ fs = <<>>
    /\ ws = IdleWrite

\* sc.calls[c]: a KeyStore call of caller c: pc its position, op and the
\* arguments, res the value returned.  History: seen is the store when the
\* call was made.  sc.base is the store when the first call of the round of
\* concurrent calls was made.
IdleStoreCall == [pc |-> "idle", op |-> "none", name |-> <<>>, value |-> <<>>,
                  kind |-> "Runtime", force |-> FALSE, include_admin |-> FALSE,
                  seen |-> <<>>, res |-> NoResult]

\* no KeychainStore::list call made
NoList == [done |-> FALSE, include_admin |-> FALSE, search |-> "ok",
           order |-> <<>>, faults |-> <<>>, res |-> NoResult]

\* cu: pc is the position in cmd_usage; provider, refresh, json the
\* arguments; cache the UsageCache of the call; providers, i, reports, errors
\* the locals; stderr the lines written to the error stream; result the value
\* returned (a notice is a line whose error is Ok of its text).  History:
\* attempts holds, per fetch_cost call made, the provider and whether it
\* returned Ok.
IdleCmd == [pc |-> "idle", provider |-> <<>>, refresh |-> FALSE, json |-> FALSE,
            cache |-> <<>>, providers |-> <<>>, i |-> 0, reports |-> <<>>,
            errors |-> <<>>, stderr |-> <<>>, attempts |-> <<>>,
            result |-> NoResult]

\* the threads of one process that call write_secure
Writers == {"w1", "w2"}

\* wc[w]: pc is the position in write_secure; path, content the arguments;
\* file the file the open handle refers to (0 if none); offset the position
\* of the handle; result the value returned
IdleWriter == [pc |-> "idle", path |-> "", content |-> <<>>, file |-> 0,
               offset |-> 0, result |-> NoResult]

\* a directory without names and without files
EmptyDir == [names |-> <<>>, files |-> <<>>]

\* no store call, list call, cmd_usage call or concurrent write in progress
MoreIdle ==
    /\ sc = [base |-> <<>>, calls |-> [c \in Callers |-> IdleStoreCall]]
    /\ kl = NoList
    /\ cu = IdleCmd
    /\ wc = [w \in Writers |-> IdleWriter]
    /\ cfs = EmptyDir

Init ==
    /\ keys = <<>>
    /\ prev = <<>>
    /\ call = NoCall
    /\ gen = IdleGen
    /\ vname = <<>>
    /\ vres = NoResult
    /\ UsageIdle
    /\ WriteIdle
    /\ MoreIdle

-----------------------------------------------------------------------------
(* KeyStore calls of a single caller *)

Set(name, value, kind, force) ==
    /\ gen.pc \in {"idle", "done"}
    /\ gen' = IdleGen
    /\ LET r == MockSet(keys, name, value, kind, force)
       IN  /\ keys' = r.keys
           /\ call' = [NoCall EXCEPT !.op = "set", !.name = name, !.value = value,
                                     !.kind = kind, !.force = force, !.res = r.res]
    /\ prev' = keys
    /\ UNCHANGED <<vname, vres, cache, now, fc, ap, fs, ws, sc, kl, cu, wc, cfs>>

Get(name) ==
    /\ gen.pc \in {"idle", "done"}
    /\ gen' = IdleGen
    /\ call' = [NoCall EXCEPT !.op = "get", !.name = name, !.res = MockGet(keys, name)]
    /\ prev' = keys
    /\ UNCHANGED <<keys, vname, vres, cache, now, fc, ap, fs, ws, sc, kl, cu, wc, cfs>>

Delete(name) ==
    /\ gen.pc \in {"idle", "done"}
    /\ gen' = IdleGen
    /\ LET r == MockDelete(keys, name)
       IN  /\ keys' = r.keys
           /\ call' = [NoCall EXCEPT !.op = "delete", !.name = name, !.res = r.res]
    /\ prev' = keys
    /\ UNCHANGED <<vname, vres, cache, now, fc, ap, fs, ws, sc, kl, cu, wc, cfs>>

Exists(name) ==
    /\ gen.pc \in {"idle", "done"}
    /\ gen' = IdleGen
    /\ call' = [NoCall EXCEPT !.op = "exists", !.name = name,
                              !.res = MockExists(keys, name)]
    /\ prev' = keys
    /\ UNCHANGED <<keys, vname, vres, cache, now, fc, ap, fs, ws, sc, kl, cu, wc, cfs>>

List(include_admin) ==
    /\ gen.pc \in {"idle", "done"}
    /\ gen' = IdleGen
    /\ \E order \in IterOrders(keys) :
          call' = [NoCall EXCEPT !.op = "list", !.include_admin = include_admin,
                                 !.res = MockList(keys, order, include_admin)]
    /\ prev' = keys
    /\ UNCHANGED <<keys, vname, vres, cache, now, fc, ap, fs, ws, sc, kl, cu, wc, cfs>>

-----------------------------------------------------------------------------
(* template.rs: generate, one step per access to the store *)

\* generate up to the choice of the format
GenStart(content) ==
    /\ gen.pc \in {"idle", "done"}
    /\ gen' = [IdleGen EXCEPT
                  !.pc = IF is_json_template(content) THEN "json" ELSE "env_list",
                  !.content = content,
                  !.output = IF is_json_template(content) THEN content ELSE <<>>]
    /\ call' = NoCall
    /\ prev' = <<>>
    /\ UNCHANGED <<keys, vname, vres, cache, now, fc, ap, fs, ws, sc, kl, cu, wc, cfs>>

\* generate_env: store.list(false), build_provider_map
EnvList ==
    /\ gen.pc = "env_list"
    /\ \E order \in IterOrders(keys) :
          LET entries == MockList(keys, order, FALSE).val
              ls == Lines(gen.content)
          IN  gen' = [gen EXCEPT
                        !.provider_map = build_provider_map(entries),
                        !.lines = ls,
                        !.i = 1,
                        !.pc = IF ls = <<>> THEN "done" ELSE "env_line",
                        !.result = IF ls = <<>>
                                   THEN Ok([content |-> <<>>, resolutions |-> <<>>])
                                   ELSE NoResult]
    /\ UNCHANGED <<keys, prev, call, vname, vres, cache, now, fc, ap, fs, ws, sc, kl, cu, wc, cfs>>

\* generate_env: one line of the template
EnvLine ==
    /\ gen.pc = "env_line"
    /\ LET r == generate_env_line(keys, gen.lines[gen.i], gen.provider_map)
           output == gen.output \o r.out
           resolutions == gen.resolutions \o r.res
           last == gen.i = Len(gen.lines)
       IN  gen' = [gen EXCEPT
                     !.output = output,
                     !.resolutions = resolutions,
                     !.emitted = Append(@, [line |-> r.line, out |-> r.out, res |-> r.res]),
                     !.reads = @ \o r.reads,
                     !.i = @ + 1,
                     !.pc = IF last THEN "done" ELSE "env_line",
                     !.result = IF last
                                THEN Ok([content |-> output, resolutions |-> resolutions])
                                ELSE NoResult]
    /\ UNCHANGED <<keys, prev, call, vname, vres, cache, now, fc, ap, fs, ws, sc, kl, cu, wc, cfs>>

\* generate_json: one iteration of the scan
JsonStep ==
    /\ gen.pc = "json"
    /\ LET r == generate_json_step(keys, gen.output, gen.search_from)
           resolutions == gen.resolutions \o r.res
       IN  gen' = [gen EXCEPT
                     !.output = r.output,
                     !.search_from = r.search_from,
                     !.resolutions = resolutions,
                     !.reads = @ \o r.reads,
                     !.pc = IF r.status = "continue" THEN "json" ELSE "done",
                     !.result = IF r.status = "continue" THEN NoResult
                                ELSE IF r.status = "error" THEN Err(r.err)
                                ELSE Ok([content |-> r.output,
                                         resolutions |-> resolutions])]
    /\ UNCHANGED <<keys, prev, call, vname, vres, cache, now, fc, ap, fs, ws, sc, kl, cu, wc, cfs>>

Next ==
    \/ \E n \in NameInputs, v \in ValueInputs, k \in KeyKind, f \in BOOLEAN :
          Set(n, v, k, f)
    \/ \E n \in NameInputs : Get(n)
    \/ \E n \in NameInputs : Delete(n)
    \/ \E n \in NameInputs : Exists(n)
    \/ \E ia \in BOOLEAN : List(ia)
    \/ \E t \in Templates : GenStart(t)
    \/ EnvList
    \/ EnvLine
    \/ JsonStep

Spec == Init /\ [][Next]_vars

-----------------------------------------------------------------------------
(* generate running while other callers change the store *)

\* a set call made by another caller
OtherSet(name, value, kind, force) ==
    /\ keys' = MockSet(keys, name, value, kind, force).keys
    /\ UNCHANGED <<prev, call, gen, vname, vres, cache, now, fc, ap, fs, ws, sc, kl, cu, wc, cfs>>

\* a delete call made by another caller
OtherDelete(name) ==
    /\ keys' = MockDelete(keys, name).keys
    /\ UNCHANGED <<prev, call, gen, vname, vres, cache, now, fc, ap, fs, ws, sc, kl, cu, wc, cfs>>

NextConc ==
    \/ \E t \in Templates : GenStart(t)
    \/ EnvList
    \/ EnvLine
    \/ JsonStep
    \/ \E n \in NameInputs, v \in ValueInputs, k \in KeyKind, f \in BOOLEAN :
          OtherSet(n, v, k, f)
    \/ \E n \in NameInputs : OtherDelete(n)

SpecConc == Init /\ [][NextConc]_vars

-----------------------------------------------------------------------------
(* validate_name as a pure function *)

InitValidate ==
    /\ keys = <<>>
    /\ prev = <<>>
    /\ call = NoCall
    /\ gen = IdleGen
    /\ vname \in BoundedNames
    /\ vres = NoResult
    /\ UsageIdle
    /\ WriteIdle
    /\ MoreIdle

Validate ==
    /\ vres = NoResult
    /\ vres' = validate_name(vname)
    /\ UNCHANGED <<keys, prev, call, gen, vname, cache, now, fc, ap, fs, ws, sc, kl, cu, wc, cfs>>

NextValidate == Validate

SpecValidate == InitValidate /\ [][NextValidate]_vars

-----------------------------------------------------------------------------
(* generate_json on every store content over JsonNames and JsonValues *)

InitJson ==
    /\ keys \in JsonStores
    /\ prev = <<>>
    /\ call = NoCall
    /\ gen = IdleGen
    /\ vname = <<>>
    /\ vres = NoResult
    /\ UsageIdle
    /\ WriteIdle
    /\ MoreIdle

NextJson ==
    \/ \E t \in JsonTemplates : GenStart(t)
    \/ JsonStep

SpecJson == InitJson /\ [][NextJson]_vars

-----------------------------------------------------------------------------
(* template.rs: generate on templates of both formats and of both at once *)

\* AWS_API_KEY=x / k={{lkr:aws:dev}} / OPENAI_API_KEY=y
fmt_mixed == <<"A","W","S","_","A","P","I","_","K","E","Y","=","x","\n","k","=","{","{","l","k","r",":","a","w","s",":","d","e","v","}","}","\n","O","P","E","N","A","I","_","A","P","I","_","K","E","Y","=","y">>

\* a comment ended by CRLF, an empty line, a line without '=', an assignment,
\* a line of spaces, a last line without '=' and without line end
fmt_plain == <<"#"," ","c","\r","\n","\n"," ","n","o","t","e","\n","A","W","S","_","A","P","I","_","K","E","Y","=","x","\n"," "," ","\n","p","l","a","i","n">>

FormatTemplates == {fmt_mixed, fmt_plain, env_mixed, json_one}

\* the contents of the stores the formats are told apart on
FormatStores ==
    UNION {[ns -> [value : {sk_proj_12}, kind : KeyKind]] :
              ns \in SUBSET {aws_dev, openai_admin}}

InitFormat ==
    /\ keys \in FormatStores
    /\ prev = <<>>
    /\ call = NoCall
    /\ gen = IdleGen
    /\ vname = <<>>
    /\ vres = NoResult
    /\ UsageIdle
    /\ WriteIdle
    /\ MoreIdle

NextFormat ==
    \/ \E t \in FormatTemplates : GenStart(t)
    \/ EnvList
    \/ EnvLine
    \/ JsonStep

SpecFormat == InitFormat /\ [][NextFormat]_vars

-----------------------------------------------------------------------------
(* usage.rs: fetch_cost with its cache, the store and the provider API *)

\* the elements of a sequence
Range(s) == {s[i] : i \in 1..Len(s)}

\* fetch_cost up to the dispatch on the provider: the cache read unless
\* refresh, and the error for a provider that is not supported
FetchCall(c, provider, refresh) ==
    /\ fc[c].pc \in {"idle", "done"}
    /\ LET seen == IF provider \in DOMAIN cache
                   THEN <<[report |-> cache[provider].report,
                           age |-> now - cache[provider].fetched_at]>>
                   ELSE <<>>
           cached == IF refresh THEN <<>>
                     ELSE UsageCacheGet(cache, provider, now, Ttl)
           base == [IdleFetch EXCEPT !.provider = provider, !.refresh = refresh,
                                     !.seen = seen]
       IN  fc' = [fc EXCEPT ![c] =
                    IF cached # <<>>
                    THEN [base EXCEPT !.pc = "done", !.result = Ok(cached[1]),
                                      !.path = "cache"]
                    ELSE IF provider \notin Range(SupportedProviders)
                    THEN [base EXCEPT !.pc = "done", !.result = unknown_provider_error,
                                      !.path = "fetch"]
                    ELSE [base EXCEPT !.pc = "key", !.path = "fetch"]]
    /\ UNCHANGED <<keys, prev, call, gen, vname, vres, cache, now, ap, fs, ws, sc, kl, cu, wc, cfs>>

\* fetch_openai_cost, fetch_anthropic_cost: get_admin_key
FetchKey(c, fault) ==
    /\ fc[c].pc = "key"
    /\ LET name == admin_key_name(fc[c].provider)
           r == get_admin_key(keys, fc[c].provider, fault)
       IN  fc' = [fc EXCEPT ![c] =
                    [@ EXCEPT !.pc = IF r.ok THEN "send" ELSE "done",
                              !.admin_key = IF r.ok THEN <<r.val>> ELSE <<>>,
                              !.result = IF r.ok THEN NoResult ELSE r,
                              !.fault = fault,
                              !.entry = IF name \in DOMAIN keys THEN <<keys[name]>>
                                        ELSE <<>>,
                              !.reads = @ + 1]]
    /\ UNCHANGED <<keys, prev, call, gen, vname, vres, cache, now, ap, fs, ws, sc, kl, cu, wc, cfs>>

\* the request with the admin key in its header: outcome is the response, or
\* NoResp when send() returns an error, and then admin_key is dropped on return
FetchSend(c, outcome) ==
    /\ fc[c].pc = "send"
    /\ fc' = [fc EXCEPT ![c] =
                IF outcome = NoResp
                THEN [@ EXCEPT !.pc = "done", !.admin_key = <<>>, !.sent = @ + 1,
                               !.result = request_failed_error]
                ELSE [@ EXCEPT !.pc = "drop", !.sent = @ + 1, !.resp = outcome]]
    /\ UNCHANGED <<keys, prev, call, gen, vname, vres, cache, now, ap, fs, ws, sc, kl, cu, wc, cfs>>

\* mutant: admin_key lives until the function returns
FetchDrop_keep(c) ==
    /\ fc[c].pc = "drop"
    /\ fc' = [fc EXCEPT ![c] = [@ EXCEPT !.pc = "check"]]
    /\ UNCHANGED <<keys, prev, call, gen, vname, vres, cache, now, ap, fs, ws, sc, kl, cu, wc, cfs>>

\* drop(admin_key)
FetchDrop(c) ==
    /\ fc[c].pc = "drop"
    /\ fc' = [fc EXCEPT ![c] = [@ EXCEPT !.pc = "check", !.admin_key = <<>>]]
    /\ UNCHANGED <<keys, prev, call, gen, vname, vres, cache, now, ap, fs, ws, sc, kl, cu, wc, cfs>>

\* mutant: a response that is refused removes the entry of the provider
FetchCheck_invalidate(c) ==
    /\ fc[c].pc = "check"
    /\ LET r == check_response(fc[c].resp, auth_error_msg(fc[c].provider))
       IN  /\ fc' = [fc EXCEPT ![c] =
                       [@ EXCEPT !.pc = IF r.ok THEN "parse" ELSE "done",
                                 !.result = IF r.ok THEN NoResult ELSE r]]
           /\ cache' = IF r.ok THEN cache
                       ELSE [p \in (DOMAIN cache) \ {fc[c].provider} |-> cache[p]]
    /\ UNCHANGED <<keys, prev, call, gen, vname, vres, now, ap, fs, ws, sc, kl, cu, wc, cfs>>

\* check_response(resp, msg).await?
FetchCheck(c) ==
    /\ fc[c].pc = "check"
    /\ LET r == check_response(fc[c].resp, auth_error_msg(fc[c].provider))
       IN  fc' = [fc EXCEPT ![c] =
                    [@ EXCEPT !.pc = IF r.ok THEN "parse" ELSE "done",
                              !.result = IF r.ok THEN NoResult ELSE r]]
    /\ UNCHANGED <<keys, prev, call, gen, vname, vres, cache, now, ap, fs, ws, sc, kl, cu, wc, cfs>>

\* resp.json() and the construction of the CostReport
FetchParse(c) ==
    /\ fc[c].pc = "parse"
    /\ LET r == parse_report(fc[c].provider, fc[c].resp.body)
       IN  fc' = [fc EXCEPT ![c] =
                    [@ EXCEPT !.pc = IF r.ok THEN "store" ELSE "done",
                              !.parsed = TRUE,
                              !.report = IF r.ok THEN <<r.val>> ELSE <<>>,
                              !.result = IF r.ok THEN NoResult ELSE r]]
    /\ UNCHANGED <<keys, prev, call, gen, vname, vres, cache, now, ap, fs, ws, sc, kl, cu, wc, cfs>>

\* cache.set(provider, report.clone()); Ok(report)
FetchStore(c) ==
    /\ fc[c].pc = "store"
    /\ cache' = UsageCacheSet(cache, fc[c].provider, fc[c].report[1], now)
    /\ fc' = [fc EXCEPT ![c] =
                [@ EXCEPT !.pc = "done", !.result = Ok(fc[c].report[1])]]
    /\ UNCHANGED <<keys, prev, call, gen, vname, vres, now, ap, fs, ws, sc, kl, cu, wc, cfs>>

\* time passes
Tick ==
    /\ now < MaxTime
    /\ now' = now + 1
    /\ UNCHANGED <<keys, prev, call, gen, vname, vres, cache, fc, ap, fs, ws, sc, kl, cu, wc, cfs>>

InitUsage ==
    /\ keys \in UsageStores
    /\ prev = <<>>
    /\ call = NoCall
    /\ gen = IdleGen
    /\ vname = <<>>
    /\ vres = NoResult
    /\ UsageIdle
    /\ WriteIdle
    /\ MoreIdle

NextUsage ==
    \/ \E c \in SoleCaller, p \in ProviderInputs, r \in BOOLEAN : FetchCall(c, p, r)
    \/ \E c \in SoleCaller, f \in BackendFaults : FetchKey(c, f)
    \/ \E c \in SoleCaller, o \in Responses \cup {NoResp} : FetchSend(c, o)
    \/ \E c \in SoleCaller : FetchDrop(c)
    \/ \E c \in SoleCaller : FetchCheck(c)
    \/ \E c \in SoleCaller : FetchParse(c)
    \/ \E c \in SoleCaller : FetchStore(c)
    \/ Tick
    \/ \E n \in AdminNames : OtherDelete(n)

SpecUsage == InitUsage /\ [][NextUsage]_vars

-----------------------------------------------------------------------------
(* usage.rs: fetch_cost called by two callers on one UsageCache *)

\* both admin keys registered
BothAdminKeys == [n \in AdminNames |-> [value |-> sk_proj_12, kind |-> "Admin"]]

\* the responses of the providers to the concurrent calls
ConcOutcomes ==
    {[status |-> 200, body |-> "cost-a"], [status |-> 200, body |-> "cost-b"],
     [status |-> 500, body |-> "garbage"]}

InitUsageConc ==
    /\ keys = BothAdminKeys
    /\ prev = <<>>
    /\ call = NoCall
    /\ gen = IdleGen
    /\ vname = <<>>
    /\ vres = NoResult
    /\ UsageIdle
    /\ WriteIdle
    /\ MoreIdle

NextUsageConc ==
    \/ \E c \in Callers, p \in Range(SupportedProviders), r \in BOOLEAN :
          FetchCall(c, p, r)
    \/ \E c \in Callers : FetchKey(c, "none")
    \/ \E c \in Callers, o \in ConcOutcomes : FetchSend(c, o)
    \/ \E c \in Callers : FetchDrop(c)
    \/ \E c \in Callers : FetchCheck(c)
    \/ \E c \in Callers : FetchParse(c)
    \/ \E c \in Callers : FetchStore(c)

SpecUsageConc == InitUsageConc /\ [][NextUsageConc]_vars

-----------------------------------------------------------------------------
(* usage.rs: available_providers over a keychain that may fail *)

\* available_providers
AvailableProviders(faults) ==
    /\ ap' = [done |-> TRUE, store |-> keys, faults |-> faults,
              res |-> available_providers(keys, faults)]
    /\ UNCHANGED <<keys, prev, call, gen, vname, vres, cache, now, fc, fs, ws, sc, kl, cu, wc, cfs>>

NextProviders ==
    \/ \E f \in [1..Len(SupportedProviders) -> BackendFaults] : AvailableProviders(f)
    \/ \E n \in AdminNames, k \in KeyKind : OtherSet(n, sk_proj_12, k, TRUE)
    \/ \E n \in AdminNames : OtherDelete(n)

SpecProviders == InitUsage /\ [][NextProviders]_vars

-----------------------------------------------------------------------------
(* keymanager.rs: MockStore called by two callers at once *)

\* the names and values of the concurrent calls
ConcNames == {aws_dev, aws_prod}
ConcValues == {sk_proj_12, stars}

\* the calls made on the store
StoreCalls ==
    [op : {"set"}, name : ConcNames, value : ConcValues, kind : KeyKind,
     force : BOOLEAN, include_admin : {FALSE}]
    \cup [op : {"get", "delete", "exists"}, name : ConcNames, value : {<<>>},
          kind : {"Runtime"}, force : {FALSE}, include_admin : {FALSE}]
    \cup [op : {"list"}, name : {<<>>}, value : {<<>>}, kind : {"Runtime"},
          force : {FALSE}, include_admin : BOOLEAN]

\* a MockStore method run on the map ks: the result and the map afterwards;
\* order is the iteration order of the HashMap, used by list
MockCall(ks, a, order) ==
    IF a.op = "set" THEN MockSet(ks, a.name, a.value, a.kind, a.force)
    ELSE IF a.op = "get" THEN [res |-> MockGet(ks, a.name), keys |-> ks]
    ELSE IF a.op = "delete" THEN MockDelete(ks, a.name)
    ELSE IF a.op = "exists" THEN [res |-> MockExists(ks, a.name), keys |-> ks]
    ELSE [res |-> MockList(ks, order, a.include_admin), keys |-> ks]

\* a caller calls a method of the store; the first call of a round records
\* the store of that moment
MsCall(c, a) ==
    /\ sc.calls[c].pc = "idle"
    /\ sc' = [base |-> IF \A d \in Callers : sc.calls[d].pc = "idle"
                       THEN keys ELSE sc.base,
              calls |-> [sc.calls EXCEPT ![c] =
                            [pc |-> "called", op |-> a.op, name |-> a.name,
                             value |-> a.value, kind |-> a.kind, force |-> a.force,
                             include_admin |-> a.include_admin, seen |-> keys,
                             res |-> NoResult]]]
    /\ UNCHANGED <<keys, prev, call, gen, vname, vres, cache, now, fc, ap, fs, ws,
                   kl, cu, wc, cfs>>

\* mutant: set and delete decide on the store of the moment of the call and
\* then change the store of the moment of the change
MsLocked_check_stale(c) ==
    /\ sc.calls[c].pc = "called"
    /\ \E order \in IterOrders(keys) :
          LET a == sc.calls[c]
              r == MockCall(keys, a, order)
              stale == MockCall(a.seen, a, <<>>)
          IN  IF a.op \in {"set", "delete"}
              THEN /\ keys' = IF ~stale.res.ok THEN keys
                              ELSE IF a.op = "set"
                              THEN Insert(keys, a.name, [value |-> a.value, kind |-> a.kind])
                              ELSE Remove(keys, a.name)
                   /\ sc' = [sc EXCEPT !.calls[c].pc = "done",
                                       !.calls[c].res = stale.res]
              ELSE /\ keys' = r.keys
                   /\ sc' = [sc EXCEPT !.calls[c].pc = "done", !.calls[c].res = r.res]
    /\ UNCHANGED <<prev, call, gen, vname, vres, cache, now, fc, ap, fs, ws,
                   kl, cu, wc, cfs>>

\* the body of the method, run while the caller holds the Mutex of the map
MsLocked(c) ==
    /\ sc.calls[c].pc = "called"
    /\ \E order \in IterOrders(keys) :
          LET r == MockCall(keys, sc.calls[c], order)
          IN  /\ keys' = r.keys
              /\ sc' = [sc EXCEPT !.calls[c].pc = "done", !.calls[c].res = r.res]
    /\ UNCHANGED <<prev, call, gen, vname, vres, cache, now, fc, ap, fs, ws,
                   kl, cu, wc, cfs>>

\* the round ends: every call made has returned
MsJoin ==
    /\ \A c \in Callers : sc.calls[c].pc \in {"idle", "done"}
    /\ \E c \in Callers : sc.calls[c].pc = "done"
    /\ sc' = [sc EXCEPT !.calls = [c \in Callers |-> IdleStoreCall]]
    /\ UNCHANGED <<keys, prev, call, gen, vname, vres, cache, now, fc, ap, fs, ws,
                   kl, cu, wc, cfs>>

NextMockConc ==
    \/ \E c \in Callers, a \in StoreCalls : MsCall(c, a)
    \/ \E c \in Callers : MsLocked(c)
    \/ MsJoin

SpecMockConc == Init /\ [][NextMockConc]_vars

-----------------------------------------------------------------------------
(* keymanager.rs: KeychainStore::list over a keychain with foreign items *)

\* the accounts under the service: two valid names, one name without colon
\* written there by something else
ListAccounts == {aws_dev, openai_admin, no_colon}

\* the items of the keychain
ListStores ==
    UNION {[ns -> [value : {sk_proj_12}, kind : KeyKind]] : ns \in SUBSET ListAccounts}

\* what can happen to an enumerated item
ItemFaults == {"none", "NoAccount", "NoEntry", "PlatformFailure", "Other", "BadPayload"}

\* list(include_admin): the enumeration answers errSecItemNotFound exactly
\* when there is no item, unless it fails
KsList(include_admin, search, faults) ==
    /\ ~kl.done
    /\ search \in {"ok", "NotFound", "Error"}
    /\ search = "NotFound" => keys = <<>>
    /\ search = "ok" => keys # <<>>
    /\ \E order \in IterOrders(keys) :
          kl' = [done |-> TRUE, include_admin |-> include_admin, search |-> search,
                 order |-> order, faults |-> faults,
                 res |-> KeychainList(keys, include_admin, search, order, faults)]
    /\ UNCHANGED <<keys, prev, call, gen, vname, vres, cache, now, fc, ap, fs, ws,
                   sc, cu, wc, cfs>>

InitList ==
    /\ keys \in ListStores
    /\ prev = <<>>
    /\ call = NoCall
    /\ gen = IdleGen
    /\ vname = <<>>
    /\ vres = NoResult
    /\ UsageIdle
    /\ WriteIdle
    /\ MoreIdle

\* the caller has taken the result of list
KsListReturn ==
    /\ kl.done
    /\ kl' = NoList
    /\ UNCHANGED <<keys, prev, call, gen, vname, vres, cache, now, fc, ap, fs, ws,
                   sc, cu, wc, cfs>>

NextList ==
    \/ \E ia \in BOOLEAN, s \in {"ok", "NotFound", "Error"},
          f \in [DOMAIN keys -> ItemFaults] : KsList(ia, s, f)
    \/ KsListReturn

SpecList == InitList /\ [][NextList]_vars

-----------------------------------------------------------------------------
(* keymanager.rs: KeychainStore::set called by two callers at once *)

\* the set calls made on the keychain
KeychainSetCalls == {a \in StoreCalls : a.op = "set"}

\* KeychainStore::exists
KeychainExists(ks, name, fault) ==
    LET g == KeychainGet(ks, name, fault)
    IN  IF g.ok THEN Ok(TRUE)
        ELSE IF g.err = "KeyNotFound" THEN Ok(FALSE)
        ELSE Err(g.err)

\* KeychainStore::set up to the existence check: validate_name, the empty
\* value, and self.exists(name) when force is false
KsSetCheck(c, a, fault) ==
    /\ sc.calls[c].pc = "idle"
    /\ LET e == KeychainExists(keys, a.name, fault)
           res == IF ~validate_name(a.name).ok THEN Err("InvalidKeyName")
                  ELSE IF a.value = <<>> THEN Err("EmptyValue")
                  ELSE IF a.force THEN NoResult
                  ELSE IF ~e.ok THEN e
                  ELSE IF e.val THEN Err("KeyAlreadyExists")
                  ELSE NoResult
       IN  sc' = [base |-> IF \A d \in Callers : sc.calls[d].pc = "idle"
                           THEN keys ELSE sc.base,
                  calls |-> [sc.calls EXCEPT ![c] =
                               [pc |-> IF res = NoResult THEN "write" ELSE "done",
                                op |-> a.op, name |-> a.name, value |-> a.value,
                                kind |-> a.kind, force |-> a.force,
                                include_admin |-> FALSE, seen |-> keys,
                                res |-> res]]]
    /\ UNCHANGED <<keys, prev, call, gen, vname, vres, cache, now, fc, ap, fs, ws,
                   kl, cu, wc, cfs>>

\* KeychainStore::set from the serialization on: entry.set_password, which
\* adds the item or replaces the one that is there
KsSetWrite(c, fault) ==
    /\ sc.calls[c].pc = "write"
    /\ LET a == sc.calls[c]
           res == IF fault = "PlatformFailure" THEN Err("KeychainLocked")
                  ELSE IF fault = "Other" THEN Err("Keychain")
                  ELSE Ok(<<>>)
       IN  /\ keys' = IF res.ok
                      THEN Insert(keys, a.name, [value |-> a.value, kind |-> a.kind])
                      ELSE keys
           /\ sc' = [sc EXCEPT !.calls[c].pc = "done", !.calls[c].res = res]
    /\ UNCHANGED <<prev, call, gen, vname, vres, cache, now, fc, ap, fs, ws,
                   kl, cu, wc, cfs>>

NextKeychainConc ==
    \/ \E c \in Callers, a \in KeychainSetCalls, f \in BackendFaults : KsSetCheck(c, a, f)
    \/ \E c \in Callers, f \in BackendFaults : KsSetWrite(c, f)
    \/ MsJoin

SpecKeychainConc == Init /\ [][NextKeychainConc]_vars

-----------------------------------------------------------------------------
(* lkr-cli main.rs: cmd_usage, the fetch of several providers in one call *)

\* char::to_lowercase on the ASCII range
to_lower_char(c) == IF is_ascii_uppercase(c) THEN Printable[Code(c) + 32 - 31] ELSE c

\* str::to_lowercase
to_lowercase(s) == [i \in 1..Len(s) |-> to_lower_char(s[i])]

\* fetch_cost from call to return: the result and the cache afterwards; fault
\* is what the keychain answers to the read of the admin key, outcome the
\* response of the provider API, or NoResp when the request fails
fetch_cost_run(ks, entries, provider, refresh, t, fault, outcome) ==
    LET cached == IF refresh THEN <<>> ELSE UsageCacheGet(entries, provider, t, Ttl)
        key == get_admin_key(ks, provider, fault)
        checked == check_response(outcome, auth_error_msg(provider))
        parsed == parse_report(provider, outcome.body)
    IN  IF cached # <<>> THEN [res |-> Ok(cached[1]), entries |-> entries]
        ELSE IF provider \notin Range(SupportedProviders)
        THEN [res |-> unknown_provider_error, entries |-> entries]
        ELSE IF ~key.ok THEN [res |-> key, entries |-> entries]
        ELSE IF outcome = NoResp THEN [res |-> request_failed_error, entries |-> entries]
        ELSE IF ~checked.ok THEN [res |-> checked, entries |-> entries]
        ELSE IF ~parsed.ok THEN [res |-> parsed, entries |-> entries]
        ELSE [res |-> Ok(parsed.val),
              entries |-> UsageCacheSet(entries, provider, parsed.val, t)]

OpenAI == <<"O","p","e","n","A","I">>

\* the provider argument of cmd_usage: None as <<>>, Some(p) as <<p>>
ProviderArgs == {<<>>, <<openai>>, <<OpenAI>>, <<mistral>>}

\* the outcomes of the requests made by cmd_usage
CmdOutcomes == {NoResp, [status |-> 200, body |-> "cost-a"],
                [status |-> 200, body |-> "garbage"],
                [status |-> 401, body |-> "cost-a"],
                [status |-> 500, body |-> "cost-a"]}

\* mutant: the first failure ends the loop
CmdUsageFetch_stop_on_error(fault, outcome) ==
    /\ cu.pc = "fetch"
    /\ cu.i <= Len(cu.providers)
    /\ LET p == cu.providers[cu.i]
           r == fetch_cost_run(keys, cu.cache, p, cu.refresh, now, fault, outcome)
       IN  cu' = [cu EXCEPT
                    !.cache = r.entries,
                    !.reports = IF r.res.ok THEN Append(@, r.res.val) ELSE @,
                    !.errors = IF r.res.ok THEN @ ELSE Append(@, r.res),
                    !.stderr = IF r.res.ok THEN @
                               ELSE Append(@, [provider |-> p, error |-> r.res]),
                    !.attempts = Append(@, [provider |-> p, ok |-> r.res.ok]),
                    !.i = IF r.res.ok THEN @ + 1 ELSE Len(cu.providers) + 1]
    /\ UNCHANGED <<keys, prev, call, gen, vname, vres, cache, now, fc, ap, fs, ws,
                   sc, kl, wc, cfs>>

\* cmd_usage up to the loop: the runtime is built (rt_ok tells whether it
\* could be) and the list of providers is made from the argument or from
\* available_providers
CmdUsageCall(provider, refresh, json, rt_ok, faults) ==
    /\ cu.pc \in {"idle", "done"}
    /\ LET avail == available_providers(keys, faults)
           base == [IdleCmd EXCEPT !.provider = provider, !.refresh = refresh,
                                   !.json = json]
       IN  cu' = IF ~rt_ok
                 THEN [base EXCEPT !.pc = "done",
                                   !.result = ErrWith("Usage", "Failed to start async runtime")]
                 ELSE IF provider # <<>>
                 THEN [base EXCEPT !.pc = "fetch", !.i = 1,
                                   !.providers = <<to_lowercase(provider[1])>>]
                 ELSE IF ~avail.ok
                 THEN [base EXCEPT !.pc = "done", !.result = avail]
                 ELSE IF avail.val = <<>>
                 THEN [base EXCEPT !.pc = "done", !.result = Ok(<<>>),
                                   !.stderr = <<[provider |-> <<>>,
                                                 error |-> Ok("No admin keys registered")]>>]
                 ELSE [base EXCEPT !.pc = "fetch", !.i = 1, !.providers = avail.val]
    /\ UNCHANGED <<keys, prev, call, gen, vname, vres, cache, now, fc, ap, fs, ws,
                   sc, kl, wc, cfs>>

\* one iteration of the loop of cmd_usage: rt.block_on(fetch_cost(..))
CmdUsageFetch(fault, outcome) ==
    /\ cu.pc = "fetch"
    /\ cu.i <= Len(cu.providers)
    /\ LET p == cu.providers[cu.i]
           r == fetch_cost_run(keys, cu.cache, p, cu.refresh, now, fault, outcome)
       IN  cu' = [cu EXCEPT
                    !.cache = r.entries,
                    !.reports = IF r.res.ok THEN Append(@, r.res.val) ELSE @,
                    !.errors = IF r.res.ok THEN @ ELSE Append(@, r.res),
                    !.stderr = IF r.res.ok THEN @
                               ELSE Append(@, [provider |-> p, error |-> r.res]),
                    !.attempts = Append(@, [provider |-> p, ok |-> r.res.ok]),
                    !.i = @ + 1]
    /\ UNCHANGED <<keys, prev, call, gen, vname, vres, cache, now, fc, ap, fs, ws,
                   sc, kl, wc, cfs>>

\* cmd_usage after the loop: the reports are printed and the result is made
CmdUsageReport ==
    /\ cu.pc = "fetch"
    /\ cu.i > Len(cu.providers)
    /\ cu' = [cu EXCEPT
                !.pc = "done",
                !.result =
                    IF cu.json
                    THEN IF cu.reports = <<>> /\ cu.errors # <<>>
                         THEN cu.errors[1] ELSE Ok(<<>>)
                    ELSE IF cu.reports = <<>>
                         THEN IF cu.errors = <<>> THEN Ok(<<>>) ELSE cu.errors[1]
                         ELSE Ok(<<>>),
                !.stderr =
                    IF ~cu.json /\ cu.reports = <<>> /\ cu.errors = <<>>
                    THEN Append(@, [provider |-> <<>>,
                                    error |-> Ok("No usage data available")])
                    ELSE @]
    /\ UNCHANGED <<keys, prev, call, gen, vname, vres, cache, now, fc, ap, fs, ws,
                   sc, kl, wc, cfs>>

NextCmdUsage ==
    \/ \E p \in ProviderArgs, r, j, rt \in BOOLEAN,
          f \in [1..Len(SupportedProviders) -> BackendFaults] :
              CmdUsageCall(p, r, j, rt, f)
    \/ \E f \in BackendFaults, o \in CmdOutcomes : CmdUsageFetch(f, o)
    \/ CmdUsageReport
    \/ \E n \in AdminNames : OtherDelete(n)

SpecCmdUsage == InitUsage /\ [][NextCmdUsage]_vars

-----------------------------------------------------------------------------
(* template.rs: write_secure on every directory of Directories *)

\* write_secure is called
WriteCall(path, content) ==
    /\ ws.pc \in {"idle", "done"}
    /\ ws' = [pc |-> "open", path |-> path, content |-> content,
              result |-> NoResult,
              before |-> IF path \in DOMAIN fs THEN <<fs[path]>> ELSE <<>>]
    /\ UNCHANGED <<keys, prev, call, gen, vname, vres, cache, now, fc, ap, fs, sc, kl, cu, wc, cfs>>

\* OpenOptions::open of the temporary path, which may fail
WriteOpen(ok) ==
    /\ ws.pc = "open"
    /\ IF ok
       THEN /\ fs' = open_truncate(fs, tmp_path(ws.path))
            /\ ws' = [ws EXCEPT !.pc = "write"]
       ELSE /\ fs' = fs
            /\ ws' = [ws EXCEPT !.pc = "done", !.result = Err("Template")]
    /\ UNCHANGED <<keys, prev, call, gen, vname, vres, cache, now, fc, ap, sc, kl, cu, wc, cfs>>

\* one write of write_all: the next n characters reach the temporary file
WriteChunk(n) ==
    /\ ws.pc = "write"
    /\ LET tmp == tmp_path(ws.path)
           written == Len(fs[tmp].content)
       IN  /\ n \in 1..(Len(ws.content) - written)
           /\ fs' = [fs EXCEPT ![tmp].content =
                        SubSeq(ws.content, 1, written + n)]
    /\ UNCHANGED <<keys, prev, call, gen, vname, vres, cache, now, fc, ap, ws, sc, kl, cu, wc, cfs>>

\* write_all or flush returns an error: the temporary file stays as it is
WriteError ==
    /\ ws.pc = "write"
    /\ ws' = [ws EXCEPT !.pc = "done", !.result = Err("Template")]
    /\ UNCHANGED <<keys, prev, call, gen, vname, vres, cache, now, fc, ap, fs, sc, kl, cu, wc, cfs>>

\* write_all and flush return Ok
WriteFlush ==
    /\ ws.pc = "write"
    /\ Len(fs[tmp_path(ws.path)].content) = Len(ws.content)
    /\ ws' = [ws EXCEPT !.pc = "rename"]
    /\ UNCHANGED <<keys, prev, call, gen, vname, vres, cache, now, fc, ap, fs, sc, kl, cu, wc, cfs>>

\* fs::rename of the temporary path to the destination; on an error the
\* temporary file is removed
WriteRename(ok) ==
    /\ ws.pc = "rename"
    /\ IF ok
       THEN /\ fs' = rename(fs, tmp_path(ws.path), ws.path)
            /\ ws' = [ws EXCEPT !.pc = "done", !.result = Ok(<<>>)]
       ELSE /\ fs' = remove_file(fs, tmp_path(ws.path))
            /\ ws' = [ws EXCEPT !.pc = "done", !.result = Err("Template")]
    /\ UNCHANGED <<keys, prev, call, gen, vname, vres, cache, now, fc, ap, sc, kl, cu, wc, cfs>>

InitWrite ==
    /\ keys = <<>>
    /\ prev = <<>>
    /\ call = NoCall
    /\ gen = IdleGen
    /\ vname = <<>>
    /\ vres = NoResult
    /\ UsageIdle
    /\ fs \in Directories
    /\ ws = IdleWrite
    /\ MoreIdle

NextWrite ==
    \/ \E p \in Destinations, t \in RenderedInputs : WriteCall(p, t)
    \/ \E ok \in BOOLEAN : WriteOpen(ok)
    \/ \E n \in 1..Len(rendered) : WriteChunk(n)
    \/ WriteError
    \/ WriteFlush
    \/ \E ok \in BOOLEAN : WriteRename(ok)

SpecWrite == InitWrite /\ [][NextWrite]_vars

-----------------------------------------------------------------------------
(* template.rs: generate from the template to the destination file *)

\* the templates given to generate
GenerateTemplates == {json_two, json_unclosed, json_bad_name, env_mixed}

\* mutant: the output built so far is written whatever the resolution
\* returned
GenWrite_unchecked(path) ==
    /\ gen.pc = "done"
    /\ ws.pc \in {"idle", "done"}
    /\ gen' = [gen EXCEPT !.pc = "write"]
    /\ ws' = [pc |-> "open", path |-> path, content |-> gen.output,
              result |-> NoResult,
              before |-> IF path \in DOMAIN fs THEN <<fs[path]>> ELSE <<>>]
    /\ UNCHANGED <<keys, prev, call, vname, vres, cache, now, fc, ap, fs, sc, kl,
                   cu, wc, cfs>>

\* generate after generate_json(..)? or generate_env(..)? returned Ok:
\* write_secure(output_path, &result.content) is called
GenWrite(path) ==
    /\ gen.pc = "done"
    /\ gen.result.ok
    /\ ws.pc \in {"idle", "done"}
    /\ gen' = [gen EXCEPT !.pc = "write"]
    /\ ws' = [pc |-> "open", path |-> path, content |-> gen.result.val.content,
              result |-> NoResult,
              before |-> IF path \in DOMAIN fs THEN <<fs[path]>> ELSE <<>>]
    /\ UNCHANGED <<keys, prev, call, vname, vres, cache, now, fc, ap, fs, sc, kl,
                   cu, wc, cfs>>

\* write_secure(..)? has returned: generate returns its error or Ok(result)
GenReturn ==
    /\ gen.pc = "write"
    /\ ws.pc = "done"
    /\ gen' = [gen EXCEPT !.pc = "idle",
                          !.result = IF ws.result.ok THEN @ ELSE ws.result]
    /\ UNCHANGED <<keys, prev, call, vname, vres, cache, now, fc, ap, fs, ws, sc,
                   kl, cu, wc, cfs>>

InitGenerate ==
    /\ keys \in FormatStores
    /\ prev = <<>>
    /\ call = NoCall
    /\ gen = IdleGen
    /\ vname = <<>>
    /\ vres = NoResult
    /\ UsageIdle
    /\ fs \in Directories
    /\ ws = IdleWrite
    /\ MoreIdle

NextGenerate ==
    \/ \E t \in GenerateTemplates : GenStart(t)
    \/ EnvList
    \/ EnvLine
    \/ JsonStep
    \/ \E p \in Destinations : GenWrite(p)
    \/ \E ok \in BOOLEAN : WriteOpen(ok)
    \/ \E n \in 1..Len(ws.content) : WriteChunk(n)
    \/ WriteError
    \/ WriteFlush
    \/ \E ok \in BOOLEAN : WriteRename(ok)
    \/ GenReturn

SpecGenerate == InitGenerate /\ [][NextGenerate]_vars

-----------------------------------------------------------------------------
(* template.rs: write_secure called by two callers of one process *)

\* the destinations and the texts of the two calls
ConcDestinations == {"out1", "out2"}
ConcTexts == {<<"a", "b">>, <<"x", "y", "z">>}

\* the files a directory of the model can hold at once, named or open
FileIds == 1..5

\* the files that have a name or are held open by a caller
LiveFiles(names, holders) == {names[p] : p \in DOMAIN names} \cup holders

\* the files open in the callers ws
OpenFiles(ws_) == {ws_[w].file : w \in {v \in Writers : ws_[v].pc \in {"write", "rename"}}}

\* a directory without the files that have no name and no open handle
Collect(names, files, holders) ==
    [names |-> names,
     files |-> [i \in DOMAIN files \cap LiveFiles(names, holders) |-> files[i]]]

\* write(2) of bytes at offset of a file: a gap left by a truncation reads
\* as zero bytes
write_at(text, offset, bytes) ==
    LET len == IF Len(text) > offset + Len(bytes) THEN Len(text)
               ELSE offset + Len(bytes)
    IN  [i \in 1..len |->
            IF i > offset /\ i <= offset + Len(bytes) THEN bytes[i - offset]
            ELSE IF i <= Len(text) THEN text[i]
            ELSE "nul"]

\* write_secure is called
CwCall(w, path, content) ==
    /\ wc[w].pc \in {"idle", "done"}
    /\ wc' = [wc EXCEPT ![w] = [IdleWriter EXCEPT !.pc = "open", !.path = path,
                                                  !.content = content]]
    /\ UNCHANGED <<keys, prev, call, gen, vname, vres, cache, now, fc, ap, fs, ws,
                   sc, kl, cu, cfs>>

\* OpenOptions write, create, truncate on the temporary path: the file that
\* has that name is emptied, or a file is created; the handle starts at 0
CwOpen(w) ==
    /\ wc[w].pc = "open"
    /\ LET tmp == tmp_path(wc[w].path)
           id == IF tmp \in DOMAIN cfs.names THEN cfs.names[tmp]
                 ELSE CHOOSE i \in FileIds \ DOMAIN cfs.files :
                         \A j \in FileIds \ DOMAIN cfs.files : i <= j
           names == [p \in DOMAIN cfs.names \cup {tmp} |->
                        IF p = tmp THEN id ELSE cfs.names[p]]
           files == [i \in DOMAIN cfs.files \cup {id} |->
                        IF i = id THEN <<>> ELSE cfs.files[i]]
       IN  /\ wc' = [wc EXCEPT ![w] = [@ EXCEPT !.pc = "write", !.file = id,
                                                !.offset = 0]]
           /\ cfs' = Collect(names, files, OpenFiles(wc'))
    /\ UNCHANGED <<keys, prev, call, gen, vname, vres, cache, now, fc, ap, fs, ws,
                   sc, kl, cu>>

\* one write of write_all: the next n bytes go to the open file at the
\* offset of the handle
CwChunk(w, n) ==
    /\ wc[w].pc = "write"
    /\ n \in 1..(Len(wc[w].content) - wc[w].offset)
    /\ cfs' = [cfs EXCEPT !.files[wc[w].file] =
                  write_at(@, wc[w].offset,
                           SubSeq(wc[w].content, wc[w].offset + 1, wc[w].offset + n))]
    /\ wc' = [wc EXCEPT ![w].offset = @ + n]
    /\ UNCHANGED <<keys, prev, call, gen, vname, vres, cache, now, fc, ap, fs, ws,
                   sc, kl, cu>>

\* write_all and flush return Ok
CwFlush(w) ==
    /\ wc[w].pc = "write"
    /\ wc[w].offset = Len(wc[w].content)
    /\ wc' = [wc EXCEPT ![w].pc = "rename"]
    /\ UNCHANGED <<keys, prev, call, gen, vname, vres, cache, now, fc, ap, fs, ws,
                   sc, kl, cu, cfs>>

\* fs::rename of the temporary path to the destination, which fails when no
\* file has the temporary name; then remove_file, and the error is returned;
\* the handle is closed on return
CwRename(w) ==
    /\ wc[w].pc = "rename"
    /\ LET tmp == tmp_path(wc[w].path)
           found == tmp \in DOMAIN cfs.names
           names == IF found THEN rename(cfs.names, tmp, wc[w].path)
                    ELSE remove_file(cfs.names, tmp)
       IN  /\ wc' = [wc EXCEPT ![w] =
                       [@ EXCEPT !.pc = "done",
                                 !.result = IF found THEN Ok(<<>>) ELSE Err("Template")]]
           /\ cfs' = Collect(names, cfs.files, OpenFiles(wc'))
    /\ UNCHANGED <<keys, prev, call, gen, vname, vres, cache, now, fc, ap, fs, ws,
                   sc, kl, cu>>

NextWriteConc ==
    \/ \E w \in Writers, p \in ConcDestinations, t \in ConcTexts : CwCall(w, p, t)
    \/ \E w \in Writers : CwOpen(w)
    \/ \E w \in Writers, n \in 1..2 : CwChunk(w, n)
    \/ \E w \in Writers : CwFlush(w)
    \/ \E w \in Writers : CwRename(w)

SpecWriteConc == Init /\ [][NextWriteConc]_vars

-----------------------------------------------------------------------------
(* The name grammar [a-z0-9][a-z0-9-]*:[a-z0-9][a-z0-9-]*, stated on its own *)

LowerLetters == {"a","b","c","d","e","f","g","h","i","j","k","l","m",
                 "n","o","p","q","r","s","t","u","v","w","x","y","z"}
Digits == {"0","1","2","3","4","5","6","7","8","9"}

GrammarPart(s) ==
    /\ Len(s) >= 1
    /\ s[1] \in LowerLetters \cup Digits
    /\ \A i \in 1..Len(s) : s[i] \in LowerLetters \cup Digits \cup {"-"}

\* the positions of the first colon that make name a valid provider:label
GrammarSplits(name) ==
    {p \in 1..Len(name) :
        /\ name[p] = ":"
        /\ \A j \in 1..(p - 1) : name[j] # ":"
        /\ GrammarPart(SubSeq(name, 1, p - 1))
        /\ GrammarPart(SubSeq(name, p + 1, Len(name)))}

InGrammar(name) == GrammarSplits(name) # {}

-----------------------------------------------------------------------------
(* Claims about the key store *)

\* C3: after a successful set(n, v, k, _), get(n) returns exactly (v, k),
\* whatever was stored under n before.
C3_SetGetRoundTrip ==
    (call.op = "set" /\ call.res.ok) =>
        LET g == MockGet(keys, call.name)
        IN  g.ok /\ g.val.value = call.value /\ g.val.kind = call.kind

\* a set with overwrite replaced an entry of another value and another kind
C3_Witness ==
    /\ call.op = "set" /\ call.res.ok /\ call.force
    /\ call.name \in DOMAIN prev
    /\ prev[call.name].value # call.value
    /\ prev[call.name].kind # call.kind

\* C4: set rejects in the order InvalidName, EmptyValue, AlreadyExists, and a
\* rejected set leaves every entry of the store as it was.
C4_SetRejectOrder ==
    call.op = "set" =>
        /\ ~InGrammar(call.name) => call.res.err = "InvalidKeyName"
        /\ (InGrammar(call.name) /\ call.value = <<>>) => call.res.err = "EmptyValue"
        /\ (InGrammar(call.name) /\ call.value # <<>> /\ ~call.force
              /\ call.name \in DOMAIN prev) => call.res.err = "KeyAlreadyExists"
        /\ ~call.res.ok => keys = prev

\* a set with an invalid name and an empty value was rejected on a non-empty store
C4_Witness ==
    /\ call.op = "set" /\ ~InGrammar(call.name) /\ call.value = <<>>
    /\ call.res.err = "InvalidKeyName"
    /\ DOMAIN prev # {}

\* C5: list(true) returns one Key Entry per stored name, list(false) one per
\* Runtime entry, each with the entry's kind and the two parts of its name,
\* in strictly ascending order of name.
C5_ListExactSorted ==
    call.op = "list" =>
        LET es == call.res.val
            expected == {n \in DOMAIN prev :
                            call.include_admin \/ prev[n].kind = "Runtime"}
        IN  /\ call.res.ok
            /\ keys = prev
            /\ {es[i].name : i \in 1..Len(es)} = expected
            /\ Len(es) = Cardinality(expected)
            /\ \A i \in 1..Len(es) :
                  /\ es[i].kind = prev[es[i].name].kind
                  /\ es[i].provider \o <<":">> \o es[i].label = es[i].name
                  /\ FindChar(es[i].provider, ":") = 0
            /\ \A i \in 1..(Len(es) - 1) : StrLess(es[i].name, es[i + 1].name)

\* list(false) returned two Runtime entries and left an Admin entry out
C5_Witness ==
    /\ call.op = "list" /\ ~call.include_admin
    /\ Len(call.res.val) = 2
    /\ \E n \in DOMAIN prev : prev[n].kind = "Admin"

\* C6: the masked_value of every Key Entry that list returns differs from the
\* raw value of the entry.
C6_MaskedDiffersFromValue ==
    call.op = "list" =>
        \A i \in 1..Len(call.res.val) :
            call.res.val[i].masked_value # prev[call.res.val[i].name].value

\* C8 as claimed: delete of a stored name removes exactly that entry, and
\* delete of any name that is not stored fails with NotFound.
C8_DeleteAsClaimed ==
    call.op = "delete" =>
        IF call.name \in DOMAIN prev
        THEN /\ call.res.ok
             /\ MockGet(keys, call.name).err = "KeyNotFound"
             /\ MockExists(keys, call.name).ok /\ ~MockExists(keys, call.name).val
             /\ DOMAIN keys = (DOMAIN prev) \ {call.name}
             /\ \A n \in DOMAIN keys : keys[n] = prev[n]
        ELSE call.res.err = "KeyNotFound" /\ keys = prev

\* C8 amended: as claimed for names of the grammar; a name outside the
\* grammar fails with InvalidName and leaves the store unchanged.
C8_Delete ==
    call.op = "delete" =>
        IF call.name \in DOMAIN prev
        THEN /\ call.res.ok
             /\ MockGet(keys, call.name).err = "KeyNotFound"
             /\ MockExists(keys, call.name).ok /\ ~MockExists(keys, call.name).val
             /\ DOMAIN keys = (DOMAIN prev) \ {call.name}
             /\ \A n \in DOMAIN keys : keys[n] = prev[n]
        ELSE /\ keys = prev
             /\ call.res.err = IF InGrammar(call.name) THEN "KeyNotFound"
                               ELSE "InvalidKeyName"

\* a stored entry was deleted while another entry was stored
C8_Witness ==
    /\ call.op = "delete" /\ call.res.ok
    /\ call.name \in DOMAIN prev
    /\ DOMAIN keys # {}

-----------------------------------------------------------------------------
(* Claims about validate_name *)

\* C7: validate_name succeeds, returning (provider, label), exactly on the
\* names provider ':' label split at the first colon with both parts in
\* [a-z0-9][a-z0-9-]*; every other name fails with InvalidName.
C7_ValidateNameGrammar ==
    vres # NoResult =>
        /\ vres.ok <=> InGrammar(vname)
        /\ vres.ok => \A p \in GrammarSplits(vname) :
                          /\ vres.val.provider = SubSeq(vname, 1, p - 1)
                          /\ vres.val.label = SubSeq(vname, p + 1, Len(vname))
        /\ ~vres.ok => vres.err = "InvalidKeyName"

\* a name with a hyphen inside a part was accepted
C7_Witness ==
    /\ vres # NoResult /\ vres.ok
    /\ \E i \in 1..Len(vname) : vname[i] = "-"

-----------------------------------------------------------------------------
(* Claims about the template engine *)

\* the final state of a generate call on an assignment-format template
EnvDone == gen.pc = "done" /\ ~is_json_template(gen.content)

\* the final state of a generate call on a placeholder-format template
JsonDone == gen.pc = "done" /\ is_json_template(gen.content)

\* C1: every value substituted by generate_env or generate_json was read from
\* an entry whose kind was Runtime at the moment of the read, in every
\* interleaving with the set and delete calls of other callers.
C1_OnlyRuntimeValuesSubstituted ==
    \A i \in 1..Len(gen.reads) : gen.reads[i].kind = "Runtime"

\* the names inside the spans {{lkr:<name>}} of a text, scanned left to right
\* without overlap; an opening without a closing ends the scan
RECURSIVE SpanNames(_)
SpanNames(text) ==
    LET start == FindStr(text, OPEN, 0)
        close == FindStr(text, CLOSE, start)
    IN  IF start = -1 \/ close = -1 THEN <<>>
        ELSE <<SubSeq(text, start + 7, close)>>
             \o SpanNames(SubSeq(text, close + 3, Len(text)))

\* some span of the template names an entry stored with kind Admin
NamesAdminEntry(text) ==
    \E i \in 1..Len(SpanNames(text)) :
        /\ SpanNames(text)[i] \in DOMAIN keys
        /\ keys[SpanNames(text)[i]].kind = "Admin"

\* C2 as claimed: a template with a span that names an Admin entry makes
\* generation fail with TemplateError, wherever the span is.
C2_AdminSpanTemplateError ==
    (JsonDone /\ NamesAdminEntry(gen.content)) =>
        ~gen.result.ok /\ gen.result.err = "Template"

\* C2 amended: generation fails; the error is TemplateError unless a span
\* before the first Admin span has a name outside the grammar, and then it is
\* the InvalidName error of the store for that span.
C2_AdminSpanFails ==
    (JsonDone /\ NamesAdminEntry(gen.content)) =>
        LET names == SpanNames(gen.content)
            admin == CHOOSE i \in 1..Len(names) :
                        /\ names[i] \in DOMAIN keys /\ keys[names[i]].kind = "Admin"
                        /\ \A j \in 1..(i - 1) :
                              ~(names[j] \in DOMAIN keys /\ keys[names[j]].kind = "Admin")
        IN  /\ ~gen.result.ok
            /\ gen.result.err =
                  IF \E j \in 1..(admin - 1) : ~InGrammar(names[j])
                  THEN "InvalidKeyName" ELSE "Template"

\* the second span names an Admin entry and the first one was substituted
C2_Witness ==
    /\ JsonDone /\ gen.content = json_two
    /\ openai_admin \in DOMAIN keys /\ keys[openai_admin].kind = "Admin"
    /\ Len(gen.resolutions) = 1 /\ gen.resolutions[1].key_name = <<aws_dev>>
    /\ gen.result.err = "Template"

\* the KEY of a KEY=value line, as the text before the first '='
KeyOfLine(line) == Trim(SubSeq(Trim(line), 1, FindChar(Trim(line), "=") - 1))

\* a line that is neither blank nor a comment and has an '='
IsAssignment(line) ==
    /\ Trim(line) # <<>>
    /\ Trim(line)[1] # "#"
    /\ FindChar(Trim(line), "=") # 0

\* equality of two strings up to the case of ASCII letters
SameIgnoringCase(a, b) ==
    /\ Len(a) = Len(b)
    /\ \A i \in 1..Len(a) :
          \/ a[i] = b[i]
          \/ is_ascii_alphanumeric(a[i]) /\ is_ascii_alphanumeric(b[i])
               /\ (Code(a[i]) = Code(b[i]) + 32 \/ Code(b[i]) = Code(a[i]) + 32)
               /\ ~is_ascii_digit(a[i]) /\ ~is_ascii_digit(b[i])

\* the rows of the table whose variable name is the KEY, case ignored
TableRows(key) ==
    {i \in 1..Len(ENV_VAR_MAP) : SameIgnoringCase(key, ENV_VAR_MAP[i][1])}

ProviderOf(name) == SubSeq(name, 1, FindChar(name, ":") - 1)

\* the names of the Runtime entries of a provider
RuntimeNames(provider) ==
    {n \in DOMAIN keys : keys[n].kind = "Runtime" /\ ProviderOf(n) = provider}

-----------------------------------------------------------------------------
(* Claims about the placeholder format, on every store of JsonStores *)

\* the offset, counted from 0, of the i-th span of a text
RECURSIVE SpanStart(_, _)
SpanStart(text, i) ==
    LET start == FindStr(text, OPEN, 0)
        close == FindStr(text, CLOSE, start)
    IN  IF i = 1 THEN start
        ELSE close + 2 + SpanStart(SubSeq(text, close + 3, Len(text)), i - 1)

\* the text with every span that names an entry stored with kind Runtime
\* replaced by the escaped value of the entry, and every other span kept
RECURSIVE Render(_)
Render(text) ==
    LET start == FindStr(text, OPEN, 0)
        close == FindStr(text, CLOSE, start)
        name == SubSeq(text, start + 7, close)
    IN  IF start = -1 \/ close = -1 THEN text
        ELSE SubSeq(text, 1, start)
             \o (IF name \in DOMAIN keys /\ keys[name].kind = "Runtime"
                 THEN escape_json_value(keys[name].value)
                 ELSE SubSeq(text, start + 1, close + 2))
             \o Render(SubSeq(text, close + 3, Len(text)))

\* the text that follows the last span of a text
RECURSIVE AfterSpans(_)
AfterSpans(text) ==
    LET start == FindStr(text, OPEN, 0)
        close == FindStr(text, CLOSE, start)
    IN  IF start = -1 \/ close = -1 THEN text
        ELSE AfterSpans(SubSeq(text, close + 3, Len(text)))

\* the text has an opening {{lkr: with no }} anywhere after it
HasUnclosed(text) == FindStr(AfterSpans(text), OPEN, 0) # -1

\* the lookup of the j-th span ends generation: its name is outside the
\* grammar or it names an entry stored with kind Admin
FailsAt(names, j) ==
    \/ ~InGrammar(names[j])
    \/ names[j] \in DOMAIN keys /\ keys[names[j]].kind = "Admin"

\* the scan reaches the i-th span: no span before it ends generation
Reached(names, i) == \A j \in 1..(i - 1) : ~FailsAt(names, j)

\* the number of spans whose lookup does not end generation, counted up to
\* the first one that does
Processed(names) ==
    IF \E j \in 1..Len(names) : FailsAt(names, j)
    THEN (CHOOSE j \in 1..Len(names) : FailsAt(names, j) /\ Reached(names, j)) - 1
    ELSE Len(names)

\* the i-th span of the template is in the output as written, at the place
\* that follows the rendering of the text before it, is recorded as a
\* Resolution without key_name, is not what made generation fail, and the
\* spans after it were processed up to the first one that ends generation
KeptUnresolved(i) ==
    LET names == SpanNames(gen.content)
        text == OPEN \o names[i] \o CLOSE
        at == Len(Render(SubSeq(gen.content, 1, SpanStart(gen.content, i))))
    IN  /\ Len(gen.resolutions) >= i
        /\ gen.resolutions[i].placeholder = text
        /\ gen.resolutions[i].key_name = <<>>
        /\ SubSeq(gen.output, at + 1, at + Len(text)) = text
        /\ Len(gen.resolutions) = Processed(names)
        /\ ~gen.result.ok =>
              \/ \E j \in (i + 1)..Len(names) : FailsAt(names, j)
              \/ HasUnclosed(gen.content)

C12_UnclosedTemplateError ==
    (JsonDone /\ HasUnclosed(gen.content)) =>
        ~gen.result.ok /\ gen.result.err = "Template"

\* C12 amended: generation fails; the error is TemplateError unless a span
\* before the opening has a name outside the grammar and no span before that
\* one names an Admin entry, and then it is the InvalidName error of the store.
C12_UnclosedFails ==
    (JsonDone /\ HasUnclosed(gen.content)) =>
        LET names == SpanNames(gen.content)
        IN  /\ ~gen.result.ok
            /\ gen.result.err =
                  IF \E j \in 1..Len(names) :
                        ~InGrammar(names[j]) /\ Reached(names, j)
                  THEN "InvalidKeyName" ELSE "Template"

\* the span before the opening was substituted and generation failed at the
\* opening
C12_Witness ==
    /\ JsonDone /\ gen.content = json_unclosed
    /\ Len(gen.resolutions) = 1 /\ gen.resolutions[1].key_name = <<aws_dev>>
    /\ ~gen.result.ok /\ gen.result.err = "Template"

\* C13: the inserted values are never scanned: a generation that succeeds
\* returns the template with each span replaced once, by the escaped stored
\* value or by itself, and one Resolution per span of the template in the
\* order of the spans; a generation that fails has processed every span
\* before the first one that ends it, and fails at a span or an opening of
\* the template, never at text of a stored value.
C13_InsertedTextNotScanned ==
    JsonDone =>
        LET names == SpanNames(gen.content)
        IN  /\ Len(gen.resolutions) = Processed(names)
            /\ \A i \in 1..Len(gen.resolutions) :
                  /\ gen.resolutions[i].placeholder = OPEN \o names[i] \o CLOSE
                  /\ gen.resolutions[i].key_name =
                        IF names[i] \in DOMAIN keys THEN <<names[i]>> ELSE <<>>
            /\ gen.result.ok =>
                  /\ gen.result.val.content = Render(gen.content)
                  /\ gen.result.val.resolutions = gen.resolutions
            /\ ~gen.result.ok =>
                  \/ \E j \in 1..Len(names) : FailsAt(names, j)
                  \/ HasUnclosed(gen.content)

\* the first span was replaced by a value that holds a span and an opening
\* and is longer than the span, and the second span was then processed
C13_Witness ==
    /\ JsonDone /\ gen.content = json_two
    /\ aws_dev \in DOMAIN keys /\ keys[aws_dev] = [value |-> nested, kind |-> "Runtime"]
    /\ aws_prod \in DOMAIN keys /\ keys[aws_prod].kind = "Runtime"
    /\ gen.result.ok
    /\ Len(gen.resolutions) = 2
    /\ gen.resolutions[2].key_name = <<openai_admin>>
    /\ SubSeq(gen.result.val.content, 1, Len(nested)) = nested

\* the first span was replaced by a value shorter than the span, and the
\* second span was then processed
C13_WitnessShorter ==
    /\ JsonDone /\ gen.content = json_two
    /\ aws_dev \in DOMAIN keys /\ keys[aws_dev] = [value |-> stars, kind |-> "Runtime"]
    /\ gen.result.ok
    /\ Len(gen.resolutions) = 2
    /\ gen.resolutions[2].key_name = <<openai_admin>>

-----------------------------------------------------------------------------
(* Claims about the usage aggregator *)

\* the cache held, when the call of caller c was made, an entry for its
\* provider whose age was less than the TTL
LiveAtCall(c) == fc[c].seen # <<>> /\ fc[c].seen[1].age < Ttl

\* C14: a fetch_cost call with refresh = false made while the cache holds an
\* entry of the provider younger than the TTL returns the report of that entry
\* without a read of the store or a request; every other call takes the
\* fetch path, and a report it returns is the one built from the response to
\* its own request.
C14_CacheReadRule ==
    \A c \in Callers :
        fc[c].pc # "idle" =>
            IF ~fc[c].refresh /\ LiveAtCall(c)
            THEN /\ fc[c].pc = "done"
                 /\ fc[c].path = "cache"
                 /\ fc[c].result.ok
                 /\ fc[c].result.val = fc[c].seen[1].report
                 /\ fc[c].reads = 0
                 /\ fc[c].sent = 0
            ELSE /\ fc[c].path = "fetch"
                 /\ (fc[c].pc = "done" /\ fc[c].result.ok) =>
                       /\ fc[c].reads = 1
                       /\ fc[c].sent = 1
                       /\ fc[c].report = <<fc[c].result.val>>
                       /\ fc[c].result.val.body = fc[c].resp.body

\* a report is served from the cache after the admin key was deleted
C14_Witness ==
    /\ fc["c1"].pc = "done" /\ fc["c1"].path = "cache"
    /\ fc["c1"].provider = openai
    /\ fc["c1"].result.ok
    /\ fc["c1"].seen[1].age = Ttl - 1
    /\ openai_admin \notin DOMAIN keys

\* an entry whose age is the TTL is not served: the call fetches and returns
\* a report that differs from the cached one
C14_WitnessExpired ==
    /\ fc["c1"].pc = "done" /\ fc["c1"].path = "fetch"
    /\ ~fc["c1"].refresh
    /\ fc["c1"].seen # <<>> /\ fc["c1"].seen[1].age = Ttl
    /\ fc["c1"].result.ok
    /\ fc["c1"].result.val # fc["c1"].seen[1].report

\* the call of caller c was made with no live cache entry to serve it, and
\* the keychain answered the read of the admin key, if there was one
GateCase(c) ==
    /\ fc[c].pc = "done"
    /\ fc[c].refresh \/ ~LiveAtCall(c)
    /\ fc[c].fault = "none"

\* C15: with no live cache entry, fetch_cost for a supported provider fails
\* with AdminKeyRequired when the store holds no entry under <provider>:admin
\* and with a usage error when the entry is of kind Runtime; for any other
\* provider it fails with a usage error; no request is sent in these cases.
C15_AdminKeyGate ==
    \A c \in Callers :
        GateCase(c) =>
            IF fc[c].provider \notin Range(SupportedProviders)
            THEN /\ ~fc[c].result.ok /\ fc[c].result.err = "Usage"
                 /\ fc[c].sent = 0 /\ fc[c].reads = 0
            ELSE /\ fc[c].entry = <<>> =>
                       /\ ~fc[c].result.ok
                       /\ fc[c].result.err = "AdminKeyRequired"
                       /\ fc[c].result.val = fc[c].provider
                       /\ fc[c].sent = 0
                 /\ (fc[c].entry # <<>> /\ fc[c].entry[1].kind = "Runtime") =>
                       /\ ~fc[c].result.ok
                       /\ fc[c].result.err = "Usage"
                       /\ fc[c].sent = 0

\* the admin key name holds a Runtime entry and the call fails with a usage
\* error before any request
C15_Witness ==
    /\ GateCase("c1")
    /\ fc["c1"].provider = anthropic
    /\ fc["c1"].entry # <<>> /\ fc["c1"].entry[1].kind = "Runtime"
    /\ fc["c1"].result.err = "Usage"
    /\ fc["c1"].sent = 0

\* the providers, in the order of SupportedProviders, for which the store
\* holds an entry of kind Admin under <provider>:admin
AdminProviders(ks) ==
    SelectSeq(SupportedProviders,
              LAMBDA p : admin_key_name(p) \in DOMAIN ks
                         /\ ks[admin_key_name(p)].kind = "Admin")

\* C16: when the keychain answers every probe, available_providers returns
\* Ok with exactly the providers that have an Admin entry under
\* <provider>:admin, openai before anthropic.
C16_AdminKindProviders ==
    (ap.done /\ \A i \in 1..Len(ap.faults) : ap.faults[i] = "none") =>
        ap.res.ok /\ ap.res.val = AdminProviders(ap.store)

\* C17: when a probe of available_providers fails with an error other than
\* NotFound, and no probe before it did, available_providers returns that
\* error; when no probe fails so, it returns Ok with a list.
C17_ProbeErrorReturned ==
    ap.done =>
        LET failing == {i \in 1..Len(ap.faults) : ap.faults[i] # "none"}
            first == CHOOSE i \in failing : \A j \in failing : i <= j
        IN  IF failing = {} THEN ap.res.ok
            ELSE /\ ~ap.res.ok
                 /\ ap.res.err = IF ap.faults[first] = "PlatformFailure"
                                 THEN "KeychainLocked" ELSE "Keychain"

\* the first probe finds an admin key, the second one finds the keychain
\* locked, and the call returns KeychainLocked
C17_Witness ==
    /\ ap.done
    /\ ap.faults = <<"none", "PlatformFailure">>
    /\ openai_admin \in DOMAIN ap.store
    /\ ~ap.res.ok /\ ap.res.err = "KeychainLocked"

\* the kinds of the errors of fetch_cost that are not authentication failures
OtherErrorKinds ==
    {unknown_provider_error.err,
     get_admin_key(<<>>, openai, "none").err,
     get_admin_key([n \in {openai_admin} |-> [value |-> sk_proj_12, kind |-> "Runtime"]],
                   openai, "none").err,
     request_failed_error.err,
     parse_report(openai, "garbage").err,
     "HttpError"}

\* C20: a call that got a 401 or 403 response fails with an error whose kind
\* no other failure has and that carries the message of the provider; a call
\* that got any other status outside 200..299 fails with HttpError of that
\* status and body; the body of a response is parsed only after a status in
\* 200..299.
C20_StatusMapping ==
    \A c \in Callers :
        (fc[c].pc = "done" /\ fc[c].resp # NoResp) =>
            /\ fc[c].resp.status \in {401, 403} =>
                  /\ ~fc[c].result.ok
                  /\ fc[c].result.err \notin OtherErrorKinds
                  /\ fc[c].result.val = auth_error_msg(fc[c].provider)
            /\ (fc[c].resp.status \notin {401, 403} /\ ~is_success(fc[c].resp.status)) =>
                  /\ ~fc[c].result.ok
                  /\ fc[c].result.err = "HttpError"
                  /\ fc[c].result.val = [status |-> fc[c].resp.status,
                                         body |-> fc[c].resp.body]
            /\ fc[c].parsed => is_success(fc[c].resp.status)

-----------------------------------------------------------------------------
(* Claims about write_secure *)

\* the content of the file at a path, <<>> if there is no file
ContentAt(dir, path) == IF path \in DOMAIN dir THEN <<dir[path].content>> ELSE <<>>

\* C18: at every point of a write_secure call, and after it, the destination
\* holds what it held when the call was made (no file, or the old content
\* with its mode) until the call returns Ok, and the complete text once it
\* has; it never holds a part of the text.
C18_DestinationOldOrComplete ==
    ws.pc # "idle" =>
        IF ws.pc = "done" /\ ws.result.ok
        THEN ContentAt(fs, ws.path) = <<ws.content>>
        ELSE /\ ws.path \in DOMAIN fs <=> ws.before # <<>>
             /\ ws.path \in DOMAIN fs => fs[ws.path] = ws.before[1]

\* a proper part of the text is in the temporary file while the destination
\* holds its old content
C18_Witness ==
    /\ ws.pc = "write" /\ ws.content = rendered
    /\ Len(fs[tmp_path(ws.path)].content) \in 1..(Len(rendered) - 1)
    /\ ws.before # <<>>
    /\ ContentAt(fs, ws.path) = <<ws.before[1].content>>

\* C19: when write_secure has returned Ok, the destination has mode 0600.
C19_OwnerOnlyMode ==
    (ws.pc = "done" /\ ws.result.ok) => fs[ws.path].mode = "0600"

-----------------------------------------------------------------------------
(* Claims about cmd_usage *)

\* C21: a cmd_usage call that has made its list of providers attempts every
\* provider of the list, in order, whatever the earlier attempts returned;
\* it returns an error exactly when every attempt failed, and then the error
\* of the first attempt; every failed attempt has a line with its provider
\* and its error on the error stream.
C21_BatchPartialFailure ==
    (cu.pc = "done" /\ cu.providers # <<>>) =>
        LET failed == {i \in 1..Len(cu.attempts) : ~cu.attempts[i].ok}
        IN  /\ Len(cu.attempts) = Len(cu.providers)
            /\ \A i \in 1..Len(cu.attempts) :
                  cu.attempts[i].provider = cu.providers[i]
            /\ ~cu.result.ok <=> failed = 1..Len(cu.attempts)
            /\ ~cu.result.ok => cu.result = cu.errors[1]
            /\ Len(cu.reports) = Len(cu.attempts) - Cardinality(failed)
            /\ Len(cu.stderr) = Cardinality(failed)
            /\ \A i \in failed :
                  \E k \in 1..Len(cu.stderr) :
                      /\ cu.stderr[k].provider = cu.providers[i]
                      /\ ~cu.stderr[k].error.ok
                      /\ k = Cardinality({j \in failed : j <= i})

\* the fetch for openai failed, the fetch for anthropic after it succeeded,
\* and the call returned Ok with the error of openai on the error stream
C21_Witness ==
    /\ cu.pc = "done"
    /\ cu.providers = <<openai, anthropic>>
    /\ ~cu.attempts[1].ok /\ cu.attempts[2].ok
    /\ cu.result.ok
    /\ Len(cu.reports) = 1 /\ cu.reports[1].provider = anthropic
    /\ Len(cu.stderr) = 1 /\ cu.stderr[1].provider = openai

\* both fetches failed and the call returned the error of the first one
C21_WitnessAllFailed ==
    /\ cu.pc = "done"
    /\ cu.providers = <<openai, anthropic>>
    /\ ~cu.attempts[1].ok /\ ~cu.attempts[2].ok
    /\ ~cu.result.ok /\ cu.result.err = "HttpError"
    /\ cu.errors[2].err = "Usage"

-----------------------------------------------------------------------------
(* Claims about concurrent callers of the store *)

\* every call of the round has returned
RoundDone ==
    /\ \A c \in Callers : sc.calls[c].pc \in {"idle", "done"}
    /\ \E c \in Callers : sc.calls[c].pc = "done"

\* the calls of the round, run one after the other in the order given from
\* the store ks, return the results they returned and leave the store as it is
RECURSIVE SequentialRun(_, _)
SequentialRun(ks, order) ==
    IF order = <<>> THEN ks = keys
    ELSE \E o \in IterOrders(ks) :
            LET r == MockCall(ks, sc.calls[order[1]], o)
            IN  /\ r.res = sc.calls[order[1]].res
                /\ SequentialRun(r.keys, Tail(order))

\* the orders of the callers whose call has returned
DoneOrders ==
    LET D == {c \in Callers : sc.calls[c].pc = "done"}
    IN  {o \in [1..Cardinality(D) -> D] :
            \A i, j \in 1..Cardinality(D) : i # j => o[i] # o[j]}

\* C22: when the calls of a round of concurrent MockStore calls have
\* returned, their results and the store are those of the calls run one
\* after the other in some order from the store at the start of the round;
\* two set calls without overwrite on a name that was not stored end with one
\* Ok, one AlreadyExists, and the entry of the caller that got Ok.
C22_MockStoreLinearizable ==
    RoundDone =>
        /\ \E order \in DoneOrders : SequentialRun(sc.base, order)
        /\ \A c, d \in Callers :
              (/\ c # d
               /\ sc.calls[c].pc = "done" /\ sc.calls[d].pc = "done"
               /\ sc.calls[c].op = "set" /\ sc.calls[d].op = "set"
               /\ sc.calls[c].name = sc.calls[d].name
               /\ ~sc.calls[c].force /\ ~sc.calls[d].force
               /\ sc.calls[c].name \notin DOMAIN sc.base
               /\ sc.calls[c].res.ok)
              => /\ ~sc.calls[d].res.ok
                 /\ sc.calls[d].res.err = "KeyAlreadyExists"
                 /\ keys[sc.calls[c].name] =
                       [value |-> sc.calls[c].value, kind |-> sc.calls[c].kind]

\* both callers had called set without overwrite on the same absent name
\* before either ran; one got Ok and the other AlreadyExists
C22_Witness ==
    /\ RoundDone
    /\ sc.calls["c1"].op = "set" /\ sc.calls["c2"].op = "set"
    /\ sc.calls["c1"].name = aws_dev /\ sc.calls["c2"].name = aws_dev
    /\ ~sc.calls["c1"].force /\ ~sc.calls["c2"].force
    /\ sc.calls["c1"].value # sc.calls["c2"].value
    /\ aws_dev \notin DOMAIN sc.base
    /\ aws_dev \notin DOMAIN sc.calls["c1"].seen
    /\ aws_dev \notin DOMAIN sc.calls["c2"].seen
    /\ sc.calls["c2"].res.ok /\ sc.calls["c1"].res.err = "KeyAlreadyExists"
    /\ keys[aws_dev].value = sc.calls["c2"].value

-----------------------------------------------------------------------------
(* Claims about concurrent fetch_cost calls *)

\* the call of c fetched a report and has returned it
Fetched(c) ==
    /\ fc[c].pc = "done"
    /\ fc[c].path = "fetch"
    /\ fc[c].result.ok

\* C23: with two callers of fetch_cost on one cache, when both have fetched
\* and returned a report for the same provider the entry of that provider
\* holds the report returned by one of them; an entry under p always holds a
\* report of provider p; and a step that changes the cache is the cache.set
\* of one call and changes the entry of that call's provider only.
C23_ConcurrentFetchSafe ==
    /\ [](\A c, d \in Callers :
            (c # d /\ Fetched(c) /\ Fetched(d) /\ fc[c].provider = fc[d].provider)
            => /\ fc[c].provider \in DOMAIN cache
               /\ cache[fc[c].provider].report \in {fc[c].result.val, fc[d].result.val})
    /\ [](\A p \in DOMAIN cache : cache[p].report.provider = p)
    /\ [][cache' # cache =>
            \E c \in Callers :
               /\ fc[c].pc = "store" /\ fc'[c].pc = "done"
               /\ \A q \in (DOMAIN cache \cup DOMAIN cache') \ {fc[c].provider} :
                     /\ q \in DOMAIN cache /\ q \in DOMAIN cache'
                     /\ cache'[q] = cache[q]]_vars

\* both calls missed on an empty entry, both fetched, the reports differ,
\* and the entry of another provider is in the cache
C23_Witness ==
    /\ Fetched("c1") /\ Fetched("c2")
    /\ fc["c1"].provider = openai /\ fc["c2"].provider = openai
    /\ ~fc["c1"].refresh /\ ~fc["c2"].refresh
    /\ fc["c1"].seen = <<>> /\ fc["c2"].seen = <<>>
    /\ fc["c1"].result.val # fc["c2"].result.val
    /\ cache[openai].report = fc["c1"].result.val
    /\ anthropic \in DOMAIN cache

-----------------------------------------------------------------------------
(* Claims about the changes of the cache *)

\* C24: a step changes the cache only as the cache.set of a call that then
\* returns Ok: the entry of that call's provider becomes the returned report
\* with the time of the step, every other entry is kept; a step that ends a
\* call with an error changes nothing in the cache, and no step removes an
\* entry.
C24_CacheChangesOnSuccessOnly ==
    [][/\ DOMAIN cache \subseteq DOMAIN cache'
       /\ \A c \in Callers :
             (fc'[c] # fc[c] /\ fc'[c].pc = "done" /\ ~fc'[c].result.ok)
             => cache' = cache
       /\ cache' # cache =>
             \E c \in Callers :
                /\ fc[c].pc = "store" /\ fc'[c].pc = "done" /\ fc'[c].result.ok
                /\ DOMAIN cache' = DOMAIN cache \cup {fc[c].provider}
                /\ cache'[fc[c].provider] =
                      [report |-> fc'[c].result.val, fetched_at |-> now]
                /\ \A q \in (DOMAIN cache) \ {fc[c].provider} :
                      cache'[q] = cache[q]]_vars

\* a call that found a stale entry, fetched and was refused: the stale entry
\* is still there with its timestamp
C24_Witness ==
    /\ fc["c1"].pc = "done" /\ ~fc["c1"].result.ok
    /\ fc["c1"].path = "fetch"
    /\ fc["c1"].sent = 1
    /\ fc["c1"].seen # <<>>
    /\ fc["c1"].seen[1].age >= Ttl
    /\ fc["c1"].provider \in DOMAIN cache
    /\ cache[fc["c1"].provider].report = fc["c1"].seen[1].report
    /\ now - cache[fc["c1"].provider].fetched_at >= Ttl

\* a call that found a stale entry and fetched replaced it by its report
\* with the time of the fetch
C24_WitnessOverwritten ==
    /\ Fetched("c1")
    /\ fc["c1"].seen # <<>>
    /\ fc["c1"].seen[1].age >= Ttl
    /\ fc["c1"].seen[1].report # fc["c1"].result.val
    /\ cache[fc["c1"].provider] = [report |-> fc["c1"].result.val, fetched_at |-> now]

-----------------------------------------------------------------------------
(* Claims about the lifetime of the admin key *)

\* C25: in fetch_openai_cost and fetch_anthropic_cost admin_key is held only
\* from get_admin_key to the drop that follows send(): it is dropped with the
\* request sent and a response received, and it is not held while the status
\* is checked, while the body is parsed, or once the call has returned,
\* whatever the way it returned.
C25_AdminKeyDroppedBeforeResponse ==
    \A c \in Callers :
       /\ fc[c].pc \in {"check", "parse", "store", "done"} => fc[c].admin_key = <<>>
       /\ fc[c].parsed => fc[c].admin_key = <<>>
       /\ fc[c].admin_key # <<>> => fc[c].pc \in {"send", "drop"}
       /\ fc[c].pc = "drop" => (fc[c].sent = 1 /\ fc[c].resp # NoResp)
       /\ fc[c].pc = "send" => (fc[c].sent = 0 /\ fc[c].admin_key # <<>>)

\* the status of a response is about to be checked: the key read from the
\* store was sent and is not held any more
C25_Witness ==
    /\ fc["c1"].pc = "check"
    /\ fc["c1"].sent = 1
    /\ fc["c1"].entry # <<>>
    /\ fc["c1"].entry[1].kind = "Admin"
    /\ fc["c1"].resp.status = 401
    /\ fc["c1"].admin_key = <<>>

\* the call returned on a body that could not be parsed
C25_WitnessParseError ==
    /\ fc["c1"].pc = "done"
    /\ fc["c1"].parsed /\ ~fc["c1"].result.ok
    /\ fc["c1"].sent = 1
    /\ fc["c1"].admin_key = <<>>

-----------------------------------------------------------------------------
(* Claims about KeychainStore::list *)

\* the enumerated account n has a valid name and was read and deserialized
Readable(n) ==
    /\ validate_name(n).ok
    /\ kl.faults[n] = "none"

\* C26: KeychainStore::list returns Ok when the enumeration answers: with no
\* entry when the keychain reports no items, and otherwise with exactly one
\* Key Entry, with the kind and the masked value stored, for each enumerated
\* account that has a valid name, was read and deserialized and passes the
\* include_admin filter; the accounts that are invalid, unreadable or not
\* deserializable are left out and do not make the call fail.
C26_ListBestEffort ==
    (kl.done /\ kl.search # "Error") =>
       /\ kl.res.ok
       /\ kl.search = "NotFound" => kl.res.val = <<>>
       /\ kl.search = "ok" =>
            LET listed == {n \in DOMAIN keys :
                             Readable(n) /\ (kl.include_admin \/ keys[n].kind = "Runtime")}
            IN  /\ Len(kl.res.val) = Cardinality(listed)
                /\ {kl.res.val[i].name : i \in 1..Len(kl.res.val)} = listed
                /\ \A i \in 1..Len(kl.res.val) :
                      /\ kl.res.val[i].kind = keys[kl.res.val[i].name].kind
                      /\ kl.res.val[i].masked_value =
                            mask_value(keys[kl.res.val[i].name].value)

\* three items enumerated: one with an invalid name, one whose payload is
\* not deserializable, one readable; the call returned the readable one
C26_Witness ==
    /\ kl.done /\ kl.search = "ok"
    /\ DOMAIN keys = ListAccounts
    /\ kl.faults[no_colon] = "none"
    /\ kl.faults[openai_admin] = "BadPayload"
    /\ kl.faults[aws_dev] = "none"
    /\ kl.order[3] = aws_dev
    /\ kl.res.ok /\ Len(kl.res.val) = 1
    /\ kl.res.val[1].name = aws_dev

\* the keychain reported no items and the call returned no entry
C26_WitnessNoItems ==
    /\ kl.done /\ kl.search = "NotFound"
    /\ kl.res = Ok(<<>>)

-----------------------------------------------------------------------------
(* Claims about the choice of the format *)

\* the text holds {{lkr: at some position
ContainsOpen(text) ==
    \E i \in 1..(Len(text) - Len(OPEN) + 1) :
       SubSeq(text, i, i + Len(OPEN) - 1) = OPEN

\* a comment line, a blank line or a line without '='
PlainLine(l) ==
    \/ Trim(l) = <<>>
    \/ Trim(l)[1] = "#"
    \/ \A i \in 1..Len(l) : l[i] # "="

\* the outputs of the lines one after the other
RECURSIVE JoinOut(_)
JoinOut(es) == IF es = <<>> THEN <<>> ELSE es[1].out \o JoinOut(Tail(es))

C27_WitnessPlain ==
    /\ gen.pc = "done" /\ gen.content = fmt_plain
    /\ Len(gen.emitted) = 6
    /\ gen.emitted[4].res # <<>>
    /\ gen.emitted[4].res[1].key_name # <<>>
    /\ gen.emitted[1].out = <<"#", " ", "c", "\n">>
    /\ gen.emitted[6].out = <<"p", "l", "a", "i", "n", "\n">>

-----------------------------------------------------------------------------
(* Claims about concurrent KeychainStore::set calls *)

\* C28: when two callers have called KeychainStore::set with overwrite
\* false on the same name in one round and both have returned, at most one
\* returned Ok, and if one did the entry stored is the one it gave.
C28_KeychainSetNoOverwriteAtomic ==
    \A c, d \in Callers :
       (/\ c # d
        /\ sc.calls[c].pc = "done" /\ sc.calls[d].pc = "done"
        /\ sc.calls[c].op = "set" /\ sc.calls[d].op = "set"
        /\ sc.calls[c].name = sc.calls[d].name
        /\ ~sc.calls[c].force /\ ~sc.calls[d].force
        /\ sc.calls[c].res.ok)
       => /\ ~sc.calls[d].res.ok
          /\ keys[sc.calls[c].name] =
                [value |-> sc.calls[c].value, kind |-> sc.calls[c].kind]

-----------------------------------------------------------------------------
(* Claims about generate as a whole *)

\* C29: generate resolves before it writes: a step changes the directory or
\* starts or advances write_secure only when the resolution of the template
\* has returned Ok; from the start of a generate call whose resolution fails
\* to its return no step touches the destination, the directory or a
\* temporary file, whatever was resolved before the failure.
C29_ResolveBeforeWrite ==
    [][/\ (fs' # fs \/ ws' # ws) =>
             /\ gen.result.ok
             /\ \/ gen.pc = "done" /\ gen'.pc = "write" /\ fs' = fs
                \/ gen.pc = "write"
       /\ (gen'.pc = "done" /\ ~gen'.result.ok) => (fs' = fs /\ ws' = ws)
       /\ (gen.pc = "done" /\ ~gen.result.ok) => (fs' = fs /\ ws' = ws)]_vars

\* the resolution failed on an Admin placeholder after a value had been
\* substituted; the directory holds what it held, no write was started
C29_Witness ==
    /\ gen.pc = "done" /\ ~gen.result.ok
    /\ gen.result.err = "Template"
    /\ gen.content = json_two
    /\ Len(gen.reads) = 1
    /\ gen.output # gen.content
    /\ ws = IdleWrite
    /\ "out" \in DOMAIN fs /\ fs["out"].content = <<"o","l","d">>
    /\ "tmp" \notin DOMAIN fs

\* a generate call whose resolution returned Ok wrote the destination
C29_WitnessWritten ==
    /\ gen.pc = "idle" /\ gen.result.ok
    /\ gen.content = json_two
    /\ ws.pc = "done" /\ ws.result.ok
    /\ fs["out"].content = gen.result.val.content

-----------------------------------------------------------------------------
(* Claims about concurrent write_secure calls *)

\* C30: when two write_secure calls of one process with different
\* destinations in one directory have both returned, both returned Ok and
\* each destination holds the complete text of its own call.
C30_ConcurrentWritesIndependent ==
    (/\ \A w \in Writers : wc[w].pc = "done"
     /\ wc["w1"].path # wc["w2"].path)
    => \A w \in Writers :
          /\ wc[w].result.ok
          /\ wc[w].path \in DOMAIN cfs.names
          /\ cfs.files[cfs.names[wc[w].path]] = wc[w].content

====
